---------------------------- MODULE Spec2Model ----------------------------
(***************************************************************************)
(* AVFlowView: focus-mode neighbourhood filtering (src/lib/focusMode.ts),  *)
(* bidirectional port-side resolution (src/lib/elkMapper.ts), the A*       *)
(* orthogonal router (src/lib/orthogonalRouter.ts) and the viewer's        *)
(* layout/focus request handling (src/components/AVWiringViewer.tsx).      *)
(*                                                                         *)
(* The pure functions are operators; each is applied by an action of a     *)
(* specification whose Init draws the inputs.  The viewer is a state       *)
(* machine whose awaited layout calls complete in any order.               *)
(***************************************************************************)
EXTENDS Integers, Sequences, FiniteSets, TLC

VARIABLES
    \* ---- focusMode.ts: inputs and results of the two exported functions
    fEdges,      \* Edge[]: sequence of [id, source, target]
    fNodes,      \* Node[]: sequence of [id, parentId, type]
    fFocus,      \* startNodeId
    fOpts,       \* [depthOutgoing, depthIncoming, followOutgoing, followIncoming]
    fNbh,        \* Set<string>: the neighbourhood
    fFiltered,   \* result of filterGraphByNeighborhood
    fpc,
    \* ---- elkMapper.ts layoutGraph: post-processing of the solver's layout
    pEdges,        \* graphData.edges: [id, source, target, sourcePortKey, targetPortKey]
    nodePos,       \* nodePos: node id -> [x, y] of the laid-out node
    pHorizontal,   \* isHorizontal (direction === 'LR')
    portSidesMap,  \* __portSides: node id -> port key -> side
    elkPortSide,   \* port.properties.side of the port objects of elkLayout
    ppc,
    \* ---- AVWiringViewer.tsx: the component's state
    graphData,      \* the graphData prop
    fullGraphData,  \* useState: the laid-out graph (None before the first layout)
    fullNodes,      \* useState: its React Flow nodes
    fullEdges,      \* useState: its React Flow edges
    viewNodes,      \* useNodesState `nodes`: the displayed nodes
    viewEdges,      \* useEdgesState `edges`: the displayed edges
    focusMode,      \* useState: [enabled, focusedNodeId, depth*, follow*]
    inFlight,       \* awaited layoutGraph calls, oldest first, with their closures
    lastRequest,    \* history: what the most recently issued request displays
    \* ---- orthogonalRouter.ts: one call of findOrthogonalPath
    rNodes,         \* NodeBounds[]: [x, y, width, height] of the obstacles
    rStart,         \* start: Point
    rEnd,           \* end: Point
    rResult,        \* what the call returned and how the search ended
    rOptimized,     \* optimizePath of the path returned
    rpc,
    \* ---- one edge from the solver's section to the rendered path
    eNodes,         \* the React Flow nodes handed to processOrthogonalRouting
    eSection,       \* elkEdge.sections[0], or no section
    eSource,        \* (sourceX, sourceY) React Flow passes to SmartEdge
    eTarget,        \* (targetX, targetY)
    eData,          \* edge.data: elkPoints, controlPoints, fullPath
    eWaypoints,     \* the waypoints SmartEdge builds from elkPoints
    ePath,          \* pathData, as its kind and its vertices
    epc,
    \* ---- orthogonalRouter.ts: separation of parallel edges
    sEdges,         \* edges: [id, source, target]
    sPaths,         \* edgePaths, by the position of the edge in edges
    sGroups,        \* groupParallelEdges(edges): key -> positions of its edges
    sProcessed,     \* processedEdges: [id, source, target, controlPoints, fullPath]
    spc,
    \* ---- elkMapper.ts layoutGraph: node priorities and sibling order
    qNodes,       \* graphData.nodes: sequence of [id, areaId]
    qEdges,       \* graphData.edges: [source, target, sourcePortKey, targetPortKey]
    qPriorities,  \* nodePriorities: node id -> [total, count], the value total / count
    qAreaNodes,   \* area id -> node ids in the order of the area's nodeChildren
    qStandalone,  \* node ids in the order of standaloneNodes
    qpc,
    \* ---- focusMode.ts: one directional BFS of calculateNeighborhood, by iteration
    bEdges,       \* edges
    bStart,       \* startNodeId
    bBound,       \* depthOutgoing or depthIncoming
    bOutgoing,    \* TRUE in the outgoing loop, FALSE in the incoming loop
    bQueue,       \* queueOut / queueIn
    bDepths,      \* nodeDepthsOutgoing / nodeDepthsIncoming
    bExpanded,    \* history: the queue entries whose edges were visited
    bpc,
    \* ---- GraphDataManager and lib/storage: the graph manager
    mGraphData,       \* useState graphData
    mCurrentGraphId,  \* useState currentGraphId
    mSavedGraphs,     \* localStorage 'avflow-saved-graphs': id -> [id, name, data]
    mStoredCurrent,   \* localStorage 'avflow-current-graph'
    mGenerated,       \* how many ids generateGraphId has handed out
    mpc

focusVars == <<fEdges, fNodes, fFocus, fOpts, fNbh, fFiltered, fpc>>
portVars == <<pEdges, nodePos, pHorizontal, portSidesMap, elkPortSide, ppc>>

viewerVars == <<graphData, fullGraphData, fullNodes, fullEdges, viewNodes, viewEdges,
                focusMode, inFlight, lastRequest>>

routerVars == <<rNodes, rStart, rEnd, rResult, rOptimized, rpc>>

edgeVars == <<eNodes, eSection, eSource, eTarget, eData, eWaypoints, ePath, epc>>

sepVars == <<sEdges, sPaths, sGroups, sProcessed, spc>>

prioVars == <<qNodes, qEdges, qPriorities, qAreaNodes, qStandalone, qpc>>

bfsVars == <<bEdges, bStart, bBound, bOutgoing, bQueue, bDepths, bExpanded, bpc>>

mgrVars == <<mGraphData, mCurrentGraphId, mSavedGraphs, mStoredCurrent, mGenerated, mpc>>

vars == <<focusVars, portVars, viewerVars, routerVars, edgeVars, sepVars, prioVars, bfsVars, mgrVars>>

\* "none" stands for undefined / null.
None == "none"

(***************************************************************************)
(* Bounds of the model.                                                    *)
(***************************************************************************)
MaxEdges == 2        \* longest edge list drawn
MaxDepth == 2        \* largest depth bound drawn (the panel offers 1..5)
MaxInFlight == 2     \* most layout calls awaited at once
\* The A* iteration budget.  The source sets it to 10000
\* (orthogonalRouter.ts:163); the model scales it down so that a search over
\* a few dozen cells can exhaust it.
maxIterations == 60

DeviceIds == {"A", "B", "C"}
AreaIds == {"R1", "R2"}

\* Every edge list of at most MaxEdges edges between device ids (self-loops
\* and duplicate edges included); an edge's id is its position.
EdgeLists ==
    UNION { { [i \in 1..n |-> [id |-> i, source |-> s[i], target |-> t[i]]] :
                s \in [1..n -> DeviceIds], t \in [1..n -> DeviceIds] } :
            n \in 0..MaxEdges }

(***************************************************************************)
(* focusMode.ts                                                            *)
(***************************************************************************)

\* Map.set(key, value)
MapSet(m, k, v) == [x \in (DOMAIN m) \cup {k} |-> IF x = k THEN v ELSE m[x]]

\* A plausible slip: a node is enqueued again when reached at the distance
\* recorded (>= instead of >).
RECURSIVE VisitEdgesOnEqual(_, _, _, _, _, _)
VisitEdgesOnEqual(edges, i, nodeId, depth, st, outgoing) ==
    IF i > Len(edges) THEN st
    ELSE LET edge == edges[i]
             from == IF outgoing THEN edge.source ELSE edge.target
             nextNodeId == IF outgoing THEN edge.target ELSE edge.source
             nextDepth == depth + 1
             st2 == IF from = nodeId
                       /\ (nextNodeId \notin DOMAIN st.depths
                           \/ st.depths[nextNodeId] >= nextDepth)
                    THEN [depths |-> MapSet(st.depths, nextNodeId, nextDepth),
                          queue |-> Append(st.queue,
                                           [nodeId |-> nextNodeId, depth |-> nextDepth])]
                    ELSE st
         IN VisitEdgesOnEqual(edges, i + 1, nodeId, depth, st2, outgoing)

\* The body of edges.forEach inside one BFS loop iteration: st is
\* [depths, queue]; outgoing selects the loop (source -> target, or
\* target -> source for the incoming loop).
RECURSIVE VisitEdges(_, _, _, _, _, _)
VisitEdges(edges, i, nodeId, depth, st, outgoing) ==
    IF i > Len(edges) THEN st
    ELSE LET edge == edges[i]
             from == IF outgoing THEN edge.source ELSE edge.target
             nextNodeId == IF outgoing THEN edge.target ELSE edge.source
             nextDepth == depth + 1
             st2 == IF from = nodeId
                       /\ (nextNodeId \notin DOMAIN st.depths
                           \/ st.depths[nextNodeId] > nextDepth)
                    THEN [depths |-> MapSet(st.depths, nextNodeId, nextDepth),
                          queue |-> Append(st.queue,
                                           [nodeId |-> nextNodeId, depth |-> nextDepth])]
                    ELSE st
         IN VisitEdges(edges, i + 1, nodeId, depth, st2, outgoing)

\* One directional BFS (the while loop): returns the nodeDepths map.
RECURSIVE BFS(_, _, _, _, _)
BFS(queue, depths, edges, bound, outgoing) ==
    IF queue = <<>> THEN depths
    ELSE LET head == Head(queue)
             rest == Tail(queue)
         IN IF head.depth >= bound
            THEN BFS(rest, depths, edges, bound, outgoing)
            ELSE LET st == VisitEdges(edges, 1, head.nodeId, head.depth,
                                      [depths |-> depths, queue |-> rest], outgoing)
                 IN BFS(st.queue, st.depths, edges, bound, outgoing)

\* A plausible slip: the incoming BFS runs whether or not it is enabled.
calculateNeighborhoodIgnoringFlag(startNodeId, depthOutgoing, depthIncoming, edges, followOutgoing, followIncoming) ==
    LET start == <<[nodeId |-> startNodeId, depth |-> 0]>>
        dOut == IF followOutgoing
                THEN BFS(start, startNodeId :> 0, edges, depthOutgoing, TRUE) ELSE <<>>
        dIn == BFS(start, startNodeId :> 0, edges, depthIncoming, FALSE)
    IN {startNodeId}
       \cup {n \in DOMAIN dOut : dOut[n] <= depthOutgoing}
       \cup {n \in DOMAIN dIn : dIn[n] <= depthIncoming}

calculateNeighborhood(startNodeId, depthOutgoing, depthIncoming, edges, followOutgoing, followIncoming) ==
    LET start == <<[nodeId |-> startNodeId, depth |-> 0]>>
        nodeDepthsOutgoing ==
            IF followOutgoing
            THEN BFS(start, startNodeId :> 0, edges, depthOutgoing, TRUE) ELSE <<>>
        nodeDepthsIncoming ==
            IF followIncoming
            THEN BFS(start, startNodeId :> 0, edges, depthIncoming, FALSE) ELSE <<>>
    IN {startNodeId}
       \cup {n \in DOMAIN nodeDepthsOutgoing : nodeDepthsOutgoing[n] <= depthOutgoing}
       \cup {n \in DOMAIN nodeDepthsIncoming : nodeDepthsIncoming[n] <= depthIncoming}

\* nodes.find(n => n.id === nodeId): the first node with that id; a node
\* without parent when there is none (find returns undefined).
NoNode == [id |-> None, parentId |-> None, type |-> None]

FindNode(nodes, nodeId) ==
    LET idx == {i \in 1..Len(nodes) : nodes[i].id = nodeId}
    IN IF idx = {} THEN NoNode
       ELSE nodes[CHOOSE i \in idx : \A j \in idx : i <= j]

getParentAreas(nodeIds, nodes) ==
    {FindNode(nodes, n).parentId :
        n \in {m \in nodeIds : FindNode(nodes, m) # NoNode
                               /\ FindNode(nodes, m).parentId # None}}

\* A plausible slip: an edge is kept when either endpoint is visible.
filterEdgesEither(edges, visibleNodeIds) ==
    SelectSeq(edges, LAMBDA edge :
        edge.source \in visibleNodeIds \/ edge.target \in visibleNodeIds)

filterEdges(edges, visibleNodeIds) ==
    SelectSeq(edges, LAMBDA edge :
        edge.source \in visibleNodeIds /\ edge.target \in visibleNodeIds)

\* The ancestors of a container among the nodes (used by the variant below).
RECURSIVE AncestorsOf(_, _, _)
AncestorsOf(nodes, id, fuel) ==
    LET n == FindNode(nodes, id)
    IN IF fuel = 0 \/ n = NoNode \/ n.parentId = None THEN {}
       ELSE {n.parentId} \cup AncestorsOf(nodes, n.parentId, fuel - 1)

NonEmptyAreas(allNodes, neighborhoodNodeIds) ==
    {areaId \in getParentAreas(neighborhoodNodeIds, allNodes) :
        \E i \in 1..Len(allNodes) :
            allNodes[i].parentId = areaId /\ allNodes[i].id \in neighborhoodNodeIds}

\* A plausible slip: every ancestor of a retained container is retained too.
filterGraphKeepingAncestors(allNodes, allEdges, neighborhoodNodeIds) ==
    LET direct == NonEmptyAreas(allNodes, neighborhoodNodeIds)
        nonEmptyAreas ==
            direct \cup UNION {AncestorsOf(allNodes, a, Len(allNodes)) : a \in direct}
        visibleNodeIds == neighborhoodNodeIds \cup nonEmptyAreas
    IN [nodes |-> SelectSeq(allNodes, LAMBDA node : node.id \in visibleNodeIds),
        edges |-> filterEdges(allEdges, visibleNodeIds),
        parentAreas |-> nonEmptyAreas]

filterGraphByNeighborhood(allNodes, allEdges, neighborhoodNodeIds) ==
    LET nonEmptyAreas == NonEmptyAreas(allNodes, neighborhoodNodeIds)
        visibleNodeIds == neighborhoodNodeIds \cup nonEmptyAreas
    IN [nodes |-> SelectSeq(allNodes, LAMBDA node : node.id \in visibleNodeIds),
        edges |-> filterEdges(allEdges, visibleNodeIds),
        parentAreas |-> nonEmptyAreas]

(***************************************************************************)
(* elkMapper.ts: port sides                                                *)
(***************************************************************************)

\* graphData.nodes[..].ports of the devices laid out: port key -> alignment.
NodePorts ==
    [n \in DeviceIds |->
        IF n = "A" THEN [p |-> "Bidirectional", i |-> "In"]
        ELSE IF n = "B" THEN [p |-> "Bidirectional", o |-> "Out"]
        ELSE [p |-> "Bidirectional"]]

\* createElkNode: the side a port is handed to the solver with; a
\* Bidirectional port carries the placeholder `BI_${key}`.
InitialPortSide(alignment, isHorizontal) ==
    IF alignment = "In" THEN (IF isHorizontal THEN "WEST" ELSE "NORTH")
    ELSE IF alignment = "Out" THEN (IF isHorizontal THEN "EAST" ELSE "SOUTH")
    ELSE "BI_"

\* edgesForPort: the edges naming (nodeId, portKey) as source or as target,
\* as the indices of graphData.edges in order.
EdgesForPort(edges, nodeId, portKey) ==
    {i \in 1..Len(edges) :
        \/ (edges[i].source = nodeId /\ edges[i].sourcePortKey = portKey)
        \/ (edges[i].target = nodeId /\ edges[i].targetPortKey = portKey)}

\* edgesForPort.forEach of the LR branch: totalDx.
RECURSIVE TotalDx(_, _, _, _)
TotalDx(edges, pos, nodeId, idx) ==
    IF idx = {} THEN 0
    ELSE LET i == CHOOSE j \in idx : \A k \in idx : j <= k
             e == edges[i]
             isSource == e.source = nodeId
             otherId == IF isSource THEN e.target ELSE e.source
             direction ==
                 IF otherId \in DOMAIN pos
                 THEN LET dx == pos[otherId].x - pos[nodeId].x
                      IN IF isSource THEN dx ELSE -dx
                 ELSE 0
         IN direction + TotalDx(edges, pos, nodeId, idx \ {i})

\* edgesForPort.forEach of the TB branch: totalDy (no sign inversion).
RECURSIVE TotalDy(_, _, _, _)
TotalDy(edges, pos, nodeId, idx) ==
    IF idx = {} THEN 0
    ELSE LET i == CHOOSE j \in idx : \A k \in idx : j <= k
             e == edges[i]
             otherId == IF e.source = nodeId THEN e.target ELSE e.source
             dy == IF otherId \in DOMAIN pos
                   THEN pos[otherId].y - pos[nodeId].y ELSE 0
         IN dy + TotalDy(edges, pos, nodeId, idx \ {i})

\* A plausible slip: the fallback of an older revision, 'SOUTH' whatever the
\* orientation.
getPortSideDynamicSouthDefault(edges, pos, nodeId, portKey, isHorizontal) ==
    LET edgesForPort == EdgesForPort(edges, nodeId, portKey)
    IN IF nodeId \notin DOMAIN pos \/ edgesForPort = {} THEN "SOUTH"
       ELSE IF isHorizontal
            THEN (IF TotalDx(edges, pos, nodeId, edgesForPort) > 0 THEN "EAST" ELSE "WEST")
            ELSE (IF TotalDy(edges, pos, nodeId, edgesForPort) > 0 THEN "NORTH" ELSE "SOUTH")

\* A plausible slip: the proximity sum of the first approach, which does not
\* invert the sign for target edges.
getPortSideDynamicProximity(edges, pos, nodeId, portKey, isHorizontal) ==
    LET edgesForPort == EdgesForPort(edges, nodeId, portKey)
        flipped == [i \in 1..Len(edges) |->
                       IF edges[i].source = nodeId THEN edges[i]
                       ELSE [edges[i] EXCEPT !.source = nodeId,
                                             !.target = edges[i].source]]
    IN IF nodeId \notin DOMAIN pos \/ edgesForPort = {}
       THEN (IF isHorizontal THEN "EAST" ELSE "SOUTH")
       ELSE IF isHorizontal
            THEN (IF TotalDx(flipped, pos, nodeId, edgesForPort) > 0 THEN "EAST" ELSE "WEST")
            ELSE (IF TotalDy(edges, pos, nodeId, edgesForPort) > 0 THEN "NORTH" ELSE "SOUTH")

\* A plausible slip: a tie counted as facing right/down (>= instead of >).
getPortSideDynamicTieEast(edges, pos, nodeId, portKey, isHorizontal) ==
    LET edgesForPort == EdgesForPort(edges, nodeId, portKey)
    IN IF nodeId \notin DOMAIN pos \/ edgesForPort = {}
       THEN (IF isHorizontal THEN "EAST" ELSE "SOUTH")
       ELSE IF isHorizontal
            THEN (IF TotalDx(edges, pos, nodeId, edgesForPort) >= 0 THEN "EAST" ELSE "WEST")
            ELSE (IF TotalDy(edges, pos, nodeId, edgesForPort) >= 0 THEN "NORTH" ELSE "SOUTH")

\* A plausible slip: the fallback is the 'else' side of the sum test.
getPortSideDynamicWestDefault(edges, pos, nodeId, portKey, isHorizontal) ==
    LET edgesForPort == EdgesForPort(edges, nodeId, portKey)
    IN IF nodeId \notin DOMAIN pos \/ edgesForPort = {}
       THEN (IF isHorizontal THEN "WEST" ELSE "SOUTH")
       ELSE IF isHorizontal
            THEN (IF TotalDx(edges, pos, nodeId, edgesForPort) > 0 THEN "EAST" ELSE "WEST")
            ELSE (IF TotalDy(edges, pos, nodeId, edgesForPort) > 0 THEN "NORTH" ELSE "SOUTH")

getPortSideDynamic(edges, pos, nodeId, portKey, isHorizontal) ==
    LET edgesForPort == EdgesForPort(edges, nodeId, portKey)
    IN IF nodeId \notin DOMAIN pos \/ edgesForPort = {}
       THEN (IF isHorizontal THEN "EAST" ELSE "SOUTH")
       ELSE IF isHorizontal
            THEN (IF TotalDx(edges, pos, nodeId, edgesForPort) > 0 THEN "EAST" ELSE "WEST")
            ELSE (IF TotalDy(edges, pos, nodeId, edgesForPort) > 0 THEN "NORTH" ELSE "SOUTH")

\* walkAndFixPorts: the side of one port after the walk; only a port whose
\* side starts with 'BI_' is resolved.
walkAndFixPorts(edges, pos, nodeId, portKey, isHorizontal) ==
    LET side == InitialPortSide(NodePorts[nodeId][portKey], isHorizontal)
    IN IF side = "BI_"
       THEN getPortSideDynamic(edges, pos, nodeId, portKey, isHorizontal)
       ELSE side

\* port.properties.side of every port object of the layout the solver
\* returns: the sides createElkNode handed in.
solverPortSides(pos, isHorizontal) ==
    [n \in DOMAIN pos |->
        [k \in DOMAIN NodePorts[n] |-> InitialPortSide(NodePorts[n][k], isHorizontal)]]

\* The same properties after (elkLayout.children || []).forEach(walkAndFixPorts),
\* which assigns port.properties.side of the solver's own objects.
fixedPortSides(edges, pos, isHorizontal) ==
    [n \in DOMAIN pos |->
        [k \in DOMAIN NodePorts[n] |-> walkAndFixPorts(edges, pos, n, k, isHorizontal)]]

\* buildPortSidesMap: nodeId -> portKey -> side over the laid-out nodes.
buildPortSidesMap(edges, pos, isHorizontal) ==
    [n \in DOMAIN pos |->
        [k \in DOMAIN NodePorts[n] |-> walkAndFixPorts(edges, pos, n, k, isHorizontal)]]

(***************************************************************************)
(* AVWiringViewer.tsx and the parts of layoutGraph that decide which nodes *)
(* and edges a layout holds.  Positions play no part in what is displayed  *)
(* and are left out; a graph is [nodes, areas, edges] with nodes           *)
(* [id, areaId], areas [id, parentId] and edges [id, source, target].      *)
(***************************************************************************)

\* useState<any>(null): the value of fullGraphData before the first layout.
NoGraph == [null |-> TRUE]

\* The initial value of the focus-mode state, also every reset of it.
DefaultDepth == 2

FocusOff == [enabled |-> FALSE, focusedNodeId |-> None,
             depthOutgoing |-> DefaultDepth, depthIncoming |-> DefaultDepth,
             followOutgoing |-> TRUE, followIncoming |-> TRUE]

\* History: what a request displays once it has been served.  A load shows
\* the full layout of its graph, a focus request the layout of the filtered
\* graph it computed with the focus state it sets, and leaving focus mode
\* shows the stored full graph (whichever graph is stored by then).
LoadRequest(g) == [kind |-> "load", graph |-> g, focusMode |-> FocusOff]
FocusRequest(g, fm) == [kind |-> "focus", graph |-> g, focusMode |-> fm]
ExitRequest == [kind |-> "exit", graph |-> NoGraph, focusMode |-> FocusOff]

RECURSIVE ConcatAll(_)
ConcatAll(qs) == IF qs = <<>> THEN <<>> ELSE Head(qs) \o ConcatAll(Tail(qs))

\* buildAreaTree + injectNodesIntoAreas + flattenElkGroups for one area: the
\* area, then its child areas, then its devices; parentId is the ELK parent.
RECURSIVE FlattenArea(_, _, _, _)
FlattenArea(graph, area, parent, fuel) ==
    LET childAreas == SelectSeq(graph.areas, LAMBDA a : a.parentId = area.id)
        areaNodes == SelectSeq(graph.nodes, LAMBDA n : n.areaId = area.id)
    IN <<[id |-> area.id, type |-> "groupNode", parentId |-> parent]>>
       \o (IF fuel = 0 THEN <<>>
           ELSE ConcatAll([i \in 1..Len(childAreas) |->
                              FlattenArea(graph, childAreas[i], area.id, fuel - 1)]))
       \o [i \in 1..Len(areaNodes) |->
              [id |-> areaNodes[i].id, type |-> "deviceNode", parentId |-> area.id]]

\* layoutGraph followed by flattenElkGroups over layouted.children: the root
\* areas (those without parentId) with their contents, then the standalone
\* devices (those without areaId).
LayoutNodes(graph) ==
    LET roots == SelectSeq(graph.areas, LAMBDA a : a.parentId = None)
        standalone == SelectSeq(graph.nodes, LAMBDA n : n.areaId = None)
    IN ConcatAll([i \in 1..Len(roots) |->
                     FlattenArea(graph, roots[i], None, Len(graph.areas))])
       \o [i \in 1..Len(standalone) |->
              [id |-> standalone[i].id, type |-> "deviceNode", parentId |-> None]]

\* mapEdgesToElk + mapEdgesToReactFlow: one React Flow edge per graph edge
\* (the graphs drawn name no port keys, so no edge is inverted).
LayoutEdges(graph) ==
    [i \in 1..Len(graph.edges) |->
        [id |-> graph.edges[i].id, source |-> graph.edges[i].source,
         target |-> graph.edges[i].target]]

\* filteredGraphData of handleNodeClick / updateFocusMode.
FilteredGraphData(full, filtered) ==
    LET nodeIds == {filtered.nodes[i].id : i \in 1..Len(filtered.nodes)}
        edgeIds == {filtered.edges[i].id : i \in 1..Len(filtered.edges)}
    IN [nodes |-> SelectSeq(full.nodes, LAMBDA n : n.id \in nodeIds),
        areas |-> SelectSeq(full.areas, LAMBDA a : a.id \in filtered.parentAreas),
        edges |-> SelectSeq(full.edges, LAMBDA e : e.id \in edgeIds)]

\* The filtered graph a focus request on nodeId with settings fm lays out.
FocusGraph(nodeId, fm) ==
    FilteredGraphData(fullGraphData,
        filterGraphByNeighborhood(fullNodes, fullEdges,
            calculateNeighborhood(nodeId, fm.depthOutgoing, fm.depthIncoming,
                                  fullGraphData.edges,
                                  fm.followOutgoing, fm.followIncoming)))

(***************************************************************************)
(* orthogonalRouter.ts: SpatialGrid and the A* search                      *)
(***************************************************************************)
EDGE_NODE_PADDING == 50
GRID_CELL_SIZE == 30

\* Math.floor(a / GRID_CELL_SIZE) and Math.ceil(a / GRID_CELL_SIZE)
FloorCell(a) == a \div GRID_CELL_SIZE
CeilCell(a) == -((-a) \div GRID_CELL_SIZE)

\* SpatialGrid.addNodeObstacles: the cells of every padded node box.
addNodeObstacles(nodeBounds) ==
    UNION { (FloorCell(nodeBounds[i].x - EDGE_NODE_PADDING)
               .. CeilCell(nodeBounds[i].x + nodeBounds[i].width + EDGE_NODE_PADDING))
            \X
            (FloorCell(nodeBounds[i].y - EDGE_NODE_PADDING)
               .. CeilCell(nodeBounds[i].y + nodeBounds[i].height + EDGE_NODE_PADDING)) :
            i \in 1..Len(nodeBounds) }

isWalkable(obstacles, x, y) == <<x, y>> \notin obstacles

worldToGrid(point) == [x |-> FloorCell(point.x), y |-> FloorCell(point.y)]

gridToWorld(gridPoint) ==
    [x |-> gridPoint.x * GRID_CELL_SIZE + GRID_CELL_SIZE \div 2,
     y |-> gridPoint.y * GRID_CELL_SIZE + GRID_CELL_SIZE \div 2]

Abs(a) == IF a < 0 THEN -a ELSE a

manhattanDistance(a, b) == Abs(a.x - b.x) + Abs(a.y - b.y)

\* openSet.sort((a, b) => a.f - b.f): Array.prototype.sort is stable, so
\* nodes of equal f keep their order.
RECURSIVE SortByF(_)
SortByF(openSet) ==
    IF openSet = <<>> THEN <<>>
    ELSE LET least == CHOOSE v \in {openSet[i].f : i \in 1..Len(openSet)} :
                          \A i \in 1..Len(openSet) : v <= openSet[i].f
         IN SelectSeq(openSet, LAMBDA n : n.f = least)
            \o SortByF(SelectSeq(openSet, LAMBDA n : n.f # least))

\* North, East, South, West
directions == <<[x |-> 0, y |-> -1], [x |-> 1, y |-> 0],
                [x |-> 0, y |-> 1], [x |-> -1, y |-> 0]>>

\* `for (const dir of directions)`: the open set after the neighbours of
\* current from the d-th direction on are explored.  A PathNode is
\* [x, y, g, h, f, route]; route is the chain of parent pointers from the
\* start cell to the node, as gridToWorld points (a closed node is never
\* changed again, so its chain is fixed when it becomes a parent).
RECURSIVE ExploreNeighbors(_, _, _, _, _, _)
ExploreNeighbors(openSet, closedSet, current, endGrid, obstacles, d) ==
    IF d > Len(directions) THEN openSet
    ELSE LET neighborX == current.x + directions[d].x
             neighborY == current.y + directions[d].y
             gScore == current.g + 1
             existing == {i \in 1..Len(openSet) :
                             openSet[i].x = neighborX /\ openSet[i].y = neighborY}
             route == Append(current.route, gridToWorld([x |-> neighborX, y |-> neighborY]))
             h == manhattanDistance([x |-> neighborX, y |-> neighborY], endGrid)
             next ==
                 IF <<neighborX, neighborY>> \in closedSet
                    \/ ~isWalkable(obstacles, neighborX, neighborY)
                 THEN openSet
                 ELSE IF existing = {}
                 THEN Append(openSet, [x |-> neighborX, y |-> neighborY, g |-> gScore,
                                       h |-> h, f |-> gScore + h, route |-> route])
                 ELSE LET i == CHOOSE j \in existing : TRUE
                      IN IF gScore < openSet[i].g
                         THEN [openSet EXCEPT ![i] =
                                  [@ EXCEPT !.g = gScore, !.f = gScore + @.h,
                                            !.route = route]]
                         ELSE openSet
         IN ExploreNeighbors(next, closedSet, current, endGrid, obstacles, d + 1)

\* The while loop of findOrthogonalPath.  The result names how the search
\* ended next to the path returned.
RECURSIVE Search(_, _, _, _, _, _, _)
Search(openSet, closedSet, iterations, start, end, endGrid, obstacles) ==
    IF openSet = <<>>
    THEN [path |-> <<start, end>>, ended |-> "empty", iterations |-> iterations]
    ELSE IF iterations >= maxIterations
    THEN [path |-> <<start, end>>, ended |-> "budget", iterations |-> iterations]
    ELSE LET sorted == SortByF(openSet)
             current == Head(sorted)
             closed == closedSet \cup {<<current.x, current.y>>}
         IN IF current.x = endGrid.x /\ current.y = endGrid.y
            THEN LET path == current.route
                 IN [path |-> [i \in 1..Len(path) |->
                                  IF i = Len(path) THEN end
                                  ELSE IF i = 1 THEN start ELSE path[i]],
                     ended |-> "goal", iterations |-> iterations + 1]
            ELSE Search(ExploreNeighbors(Tail(sorted), closed, current, endGrid,
                                         obstacles, 1),
                        closed, iterations + 1, start, end, endGrid, obstacles)

\* A plausible slip: the fallback returns no path at all.
findOrthogonalPathEmptyFallback(start, end, obstacles) ==
    LET startGrid == worldToGrid(start)
        endGrid == worldToGrid(end)
        h == manhattanDistance(startGrid, endGrid)
        startNode == [x |-> startGrid.x, y |-> startGrid.y, g |-> 0, h |-> h, f |-> h,
                      route |-> <<gridToWorld(startGrid)>>]
        r == Search(<<startNode>>, {}, 0, start, end, endGrid, obstacles)
    IN IF ~isWalkable(obstacles, startGrid.x, startGrid.y)
          \/ ~isWalkable(obstacles, endGrid.x, endGrid.y)
       THEN [path |-> <<start, end>>, ended |-> "blocked", iterations |-> 0]
       ELSE IF r.ended = "goal" THEN r ELSE [r EXCEPT !.path = <<>>]

findOrthogonalPath(start, end, obstacles) ==
    LET startGrid == worldToGrid(start)
        endGrid == worldToGrid(end)
        h == manhattanDistance(startGrid, endGrid)
        startNode == [x |-> startGrid.x, y |-> startGrid.y, g |-> 0, h |-> h, f |-> h,
                      route |-> <<gridToWorld(startGrid)>>]
    IN IF ~isWalkable(obstacles, startGrid.x, startGrid.y)
          \/ ~isWalkable(obstacles, endGrid.x, endGrid.y)
       THEN [path |-> <<start, end>>, ended |-> "blocked", iterations |-> 0]
       ELSE Search(<<startNode>>, {}, 0, start, end, endGrid, obstacles)

\* The interior points optimizePath keeps, from index i on: a point goes
\* when it has the y, or the x, of both its neighbours in waypoints.
RECURSIVE KeptInterior(_, _)
KeptInterior(waypoints, i) ==
    IF i > Len(waypoints) - 1 THEN <<>>
    ELSE LET prev == waypoints[i - 1]
             current == waypoints[i]
             next == waypoints[i + 1]
             isHorizontal == prev.y = current.y /\ current.y = next.y
             isVertical == prev.x = current.x /\ current.x = next.x
         IN (IF ~isHorizontal /\ ~isVertical THEN <<current>> ELSE <<>>)
            \o KeptInterior(waypoints, i + 1)

optimizePath(waypoints) ==
    IF Len(waypoints) <= 2 THEN waypoints
    ELSE <<waypoints[1]>> \o KeptInterior(waypoints, 2)
         \o <<waypoints[Len(waypoints)]>>

(***************************************************************************)
(* One edge from the solver's result to the drawn path:                    *)
(* mapEdgesToReactFlow (AVWiringViewer.tsx), processOrthogonalRouting      *)
(* (orthogonalRouter.ts) and SmartEdge (SmartEdge.tsx).  A drawn path is   *)
(* named by its kind and its vertices; the arcs that round its corners are *)
(* left out.  Coordinates are integers, so "within 0.5" is equality.       *)
(***************************************************************************)
\* A point, or a section, the solver did not supply; edge.data and pathData
\* before they are computed.
NoPoint == [none |-> TRUE]

NoSection == [present |-> FALSE, startPoint |-> NoPoint, endPoint |-> NoPoint,
              bendPoints |-> <<>>]

NoData == [elkPoints |-> <<>>, controlPoints |-> <<>>, fullPath |-> <<>>]

NoPath == [kind |-> "none", points |-> <<>>]

MIN_SEGMENT_LENGTH == 30
DefaultNodeWidth == 440
DefaultNodeHeight == 100

\* mapEdgesToReactFlow: data.elkPoints of the edge.  Reading
\* section.startPoint.x of a section without that point throws.
mapEdgesToReactFlow(section) ==
    IF ~section.present THEN [thrown |-> FALSE, elkPoints |-> <<>>]
    ELSE IF section.startPoint = NoPoint \/ section.endPoint = NoPoint
    THEN [thrown |-> TRUE, elkPoints |-> <<>>]
    ELSE [thrown |-> FALSE,
          elkPoints |-> <<section.startPoint>> \o section.bendPoints
                        \o <<section.endPoint>>]

\* nodeBounds of processOrthogonalRouting.  A node whose position holds no
\* numbers gives NaN cell indices and marks no cell, so it is left out; a
\* node without style or measured size takes 440 x 100.
getNodeBounds(nodes) ==
    LET placed == SelectSeq(nodes, LAMBDA n : n.position # NoPoint)
    IN [i \in 1..Len(placed) |->
           [x |-> placed[i].position.x, y |-> placed[i].position.y,
            width |-> IF placed[i].width # 0 THEN placed[i].width
                      ELSE DefaultNodeWidth,
            height |-> IF placed[i].height # 0 THEN placed[i].height
                       ELSE DefaultNodeHeight]]

\* The first pass of processOrthogonalRouting for one edge.
EdgePathOf(section, nodes) ==
    IF ~section.present THEN <<>>
    ELSE IF section.startPoint = NoPoint \/ section.endPoint = NoPoint THEN <<>>
    ELSE IF Len(section.bendPoints) > 0
    THEN optimizePath(<<section.startPoint>> \o section.bendPoints
                      \o <<section.endPoint>>)
    ELSE optimizePath(findOrthogonalPath(section.startPoint, section.endPoint,
                          addNodeObstacles(getNodeBounds(nodes))).path)

\* processOrthogonalRouting for an edge that is alone in its group: the
\* path is written back unchanged.
processOrthogonalRouting(section, nodes) ==
    LET path == EdgePathOf(section, nodes)
    IN [controlPoints |-> IF Len(path) > 2 THEN SubSeq(path, 2, Len(path) - 1)
                          ELSE <<>>,
        fullPath |-> path]

\* The bend filter of SmartEdge: first and last bend always stay, a bend in
\* between goes when it is on one line with both its neighbours.
RECURSIVE KeptBends(_, _)
KeptBends(elkBendPoints, i) ==
    IF i > Len(elkBendPoints) - 1 THEN <<>>
    ELSE LET prev == elkBendPoints[i - 1]
             curr == elkBendPoints[i]
             next == elkBendPoints[i + 1]
             sameLine == \/ (curr.x = prev.x /\ next.x = curr.x)
                         \/ (curr.y = prev.y /\ next.y = curr.y)
         IN (IF ~sameLine THEN <<curr>> ELSE <<>>)
            \o KeptBends(elkBendPoints, i + 1)

FilteredBends(elkBendPoints) ==
    <<elkBendPoints[1]>> \o KeptBends(elkBendPoints, 2)
    \o <<elkBendPoints[Len(elkBendPoints)]>>

Buffer(from, toward) ==
    from + (IF toward > from THEN MIN_SEGMENT_LENGTH ELSE -MIN_SEGMENT_LENGTH)

BufferBack(from, toward) ==
    from + (IF toward < from THEN MIN_SEGMENT_LENGTH ELSE -MIN_SEGMENT_LENGTH)

\* A plausible slip: the bend points of a routing column are all kept
\* between the two buffer points.
SmartEdgeWaypointsKeepBends(source, target, elkPoints) ==
    LET elkBendPoints == SubSeq(elkPoints, 2, Len(elkPoints) - 1)
    IN IF elkBendPoints = <<>> THEN <<>>
       ELSE <<[x |-> Buffer(source.x, elkBendPoints[1].x), y |-> source.y]>>
            \o elkBendPoints
            \o <<[x |-> BufferBack(target.x, elkBendPoints[1].x), y |-> target.y]>>

\* The waypoints SmartEdge builds when data.elkPoints is not empty.
SmartEdgeWaypoints(source, target, elkPoints) ==
    LET elkBendPoints == SubSeq(elkPoints, 2, Len(elkPoints) - 1)
    IN IF Len(elkBendPoints) > 0
       THEN LET firstBend == elkBendPoints[1]
                allSameX == \A i \in 1..Len(elkBendPoints) :
                                elkBendPoints[i].x = firstBend.x
                allSameY == \A i \in 1..Len(elkBendPoints) :
                                elkBendPoints[i].y = firstBend.y
            IN IF allSameX
               THEN LET routingX == firstBend.x
                    IN <<[x |-> Buffer(source.x, routingX), y |-> source.y],
                         [x |-> routingX, y |-> source.y],
                         [x |-> routingX, y |-> target.y],
                         [x |-> BufferBack(target.x, routingX), y |-> target.y]>>
               ELSE IF allSameY
               THEN LET routingY == firstBend.y
                    IN <<[x |-> source.x, y |-> Buffer(source.y, routingY)],
                         [x |-> source.x, y |-> routingY],
                         [x |-> target.x, y |-> routingY],
                         [x |-> target.x, y |-> BufferBack(target.y, routingY)]>>
               ELSE LET filteredBends == FilteredBends(elkBendPoints)
                        first == filteredBends[1]
                        lastBend == filteredBends[Len(filteredBends)]
                    IN <<[x |-> Buffer(source.x, first.x), y |-> source.y],
                         [x |-> first.x, y |-> source.y]>>
                       \o filteredBends
                       \o <<[x |-> lastBend.x, y |-> target.y],
                            [x |-> BufferBack(target.x, lastBend.x), y |-> target.y]>>
       ELSE LET midX == (source.x + target.x) \div 2
            IN <<[x |-> Buffer(source.x, midX), y |-> source.y],
                 [x |-> midX, y |-> source.y],
                 [x |-> midX, y |-> target.y],
                 [x |-> BufferBack(target.x, midX), y |-> target.y]>>

\* buildRoundedOrthogonalPath: a direct line without control points, else
\* the polyline through them with rounded corners.
buildRoundedOrthogonalPath(source, target, controlPoints) ==
    IF Len(controlPoints) = 0
    THEN [kind |-> "line", points |-> <<source, target>>]
    ELSE [kind |-> "rounded", points |-> <<source>> \o controlPoints \o <<target>>]

\* SmartEdge: elkPoints first, then controlPoints, else getBezierPath.
SmartEdge(source, target, data) ==
    IF Len(data.elkPoints) > 0
    THEN buildRoundedOrthogonalPath(source, target,
             SmartEdgeWaypoints(source, target, data.elkPoints))
    ELSE IF Len(data.controlPoints) > 0
    THEN buildRoundedOrthogonalPath(source, target, data.controlPoints)
    ELSE [kind |-> "bezier", points |-> <<source, target>>]

(***************************************************************************)
(* orthogonalRouter.ts: separation of parallel edges.  Edges are named by  *)
(* their position in the edges array (ids are unique).  The first segment  *)
(* of every path of the model is axis-aligned or of length zero, so the    *)
(* unit perpendicular has whole coordinates.                               *)
(***************************************************************************)
EDGE_SEPARATION == 12

\* `${edge.source}-${edge.target}`
GroupKey(edge) == edge.source \o "-" \o edge.target

\* groupParallelEdges: key -> the edges with that key, in array order.
groupParallelEdges(edges) ==
    [k \in {GroupKey(edges[i]) : i \in 1..Len(edges)} |->
        SelectSeq([i \in 1..Len(edges) |-> i], LAMBDA i : GroupKey(edges[i]) = k)]

Sign(a) == IF a > 0 THEN 1 ELSE IF a < 0 THEN -1 ELSE 0

\* calculatePerpendicularOffset for dx = 0 or dy = 0.
calculatePerpendicularOffset(p1, p2, distance) ==
    LET dx == p2.x - p1.x
        dy == p2.y - p1.y
    IN IF dx = 0 /\ dy = 0 THEN [x |-> 0, y |-> distance]
       ELSE [x |-> (-Sign(dy)) * distance, y |-> Sign(dx) * distance]

offsetPath(waypoints, offset) ==
    [i \in 1..Len(waypoints) |->
        [x |-> waypoints[i].x + offset.x, y |-> waypoints[i].y + offset.y]]

\* offsetMultiplier * separationDistance for the member at index (from 0)
\* of a group of numEdges; EDGE_SEPARATION is even, so halves are whole.
OffsetDistance(index, numEdges) ==
    ((2 * index - (numEdges - 1)) * EDGE_SEPARATION) \div 2

\* separateParallelEdges: separatedPaths.get(edge.id) of edge e.
separatedPath(groups, edgePaths, edges, e) ==
    LET groupEdges == groups[GroupKey(edges[e])]
        numEdges == Len(groupEdges)
        index == (CHOOSE i \in 1..numEdges : groupEdges[i] = e) - 1
        path == edgePaths[e]
    IN IF numEdges = 1 THEN path
       ELSE IF Len(path) < 2 THEN path
       ELSE offsetPath(path,
                calculatePerpendicularOffset(path[1], path[2],
                    OffsetDistance(index, numEdges)))

\* The second and third pass of processOrthogonalRouting.
processedEdges(edges, edgePaths) ==
    LET groups == groupParallelEdges(edges)
    IN [e \in 1..Len(edges) |->
           LET path == separatedPath(groups, edgePaths, edges, e)
           IN [id |-> edges[e].id, source |-> edges[e].source,
               target |-> edges[e].target,
               controlPoints |-> IF Len(path) > 2
                                 THEN SubSeq(path, 2, Len(path) - 1) ELSE <<>>,
               fullPath |-> path]]

(***************************************************************************)
(* elkMapper.ts: node priorities and the order of sibling nodes.  A        *)
(* priority totalPriority / count is kept as the pair [total, count].      *)
(***************************************************************************)
\* Object.keys(node.ports) of the devices.
PortKeys ==
    [n \in DeviceIds |->
        IF n = "A" THEN <<"p", "i">>
        ELSE IF n = "B" THEN <<"p", "o">>
        ELSE <<"p">>]

\* portKeys.indexOf(key), -1 when the key is absent.
IndexOf(keys, key) ==
    IF \E i \in 1..Len(keys) : keys[i] = key
    THEN (CHOOSE i \in 1..Len(keys) : keys[i] = key) - 1
    ELSE -1

HasNode(nodes, id) == \E i \in 1..Len(nodes) : nodes[i].id = id

\* The port index one edge adds for node id, as <<total, count>>.
RECURSIVE PrioritySum(_, _, _, _)
PrioritySum(nodes, edges, id, i) ==
    IF i > Len(edges) THEN [total |-> 0, count |-> 0]
    ELSE LET e == edges[i]
             rest == PrioritySum(nodes, edges, id, i + 1)
             out == IF e.source = id /\ e.targetPortKey # None /\ HasNode(nodes, e.target)
                    THEN IndexOf(PortKeys[e.target], e.targetPortKey) ELSE -1
             in == IF e.target = id /\ e.sourcePortKey # None /\ HasNode(nodes, e.source)
                   THEN IndexOf(PortKeys[e.source], e.sourcePortKey) ELSE -1
         IN [total |-> rest.total + (IF out >= 0 THEN out ELSE 0) + (IF in >= 0 THEN in ELSE 0),
             count |-> rest.count + (IF out >= 0 THEN 1 ELSE 0) + (IF in >= 0 THEN 1 ELSE 0)]

computeNodePriorities(nodes, edges) ==
    LET ids == {nodes[i].id : i \in 1..Len(nodes)}
        withCount == {id \in ids : PrioritySum(nodes, edges, id, 1).count > 0}
    IN [id \in withCount |-> PrioritySum(nodes, edges, id, 1)]

\* nodePriorities?.get(id) ?? 999
PriorityOr999(priorities, id) ==
    IF id \in DOMAIN priorities THEN priorities[id] ELSE [total |-> 999, count |-> 1]

\* prioA - prioB <= 0
NotAfter(a, b) == a.total * b.count <= b.total * a.count

\* areaNodes.sort((a, b) => prioA - prioB): a stable sort.
RECURSIVE SortByPriority(_, _)
SortByPriority(ids, priorities) ==
    IF ids = <<>> THEN <<>>
    ELSE LET sorted == SortByPriority(SubSeq(ids, 1, Len(ids) - 1), priorities)
             last == ids[Len(ids)]
             key == PriorityOr999(priorities, last)
             before == SelectSeq(sorted, LAMBDA x : NotAfter(PriorityOr999(priorities, x), key))
             after == SelectSeq(sorted, LAMBDA x : ~NotAfter(PriorityOr999(priorities, x), key))
         IN before \o <<last>> \o after

IdsWhere(nodes, areaId) ==
    LET members == SelectSeq(nodes, LAMBDA n : n.areaId = areaId)
    IN [i \in 1..Len(members) |-> members[i].id]

\* injectNodesIntoAreas: the order of nodeChildren of one area.
areaNodeOrder(nodes, areaId, priorities) ==
    SortByPriority(IdsWhere(nodes, areaId), priorities)

\* layoutGraph: the order of standaloneNodes, a filter and a map.
standaloneNodeOrder(nodes, priorities) == IdsWhere(nodes, None)

(***************************************************************************)
(* GraphDataManager (src/unnamed/part_008) and lib/storage                 *)
(* (src/unnamed/part_007): saved configurations.  The state of the manager *)
(* is [graphData, currentGraphId]; the storage is [graphs, current].       *)
(***************************************************************************)
SAMPLE_GRAPH_ID == "sample-graph"

sampleGraphData == "sample"

\* generateGraphId: an id no earlier call returned.
generateGraphId(n) == "graph-" \o ToString(n)

\* Remove a key from a map (delete graphs[id]).
MapDelete(m, k) == [x \in (DOMAIN m) \ {k} |-> m[x]]

isNameTaken(graphs, name, excludeId) ==
    \E id \in DOMAIN graphs : graphs[id].name = name /\ graphs[id].id # excludeId

\* handleLoadGraph: the manager state and the stored current id afterwards.
handleLoadGraph(graphs, graphId, state, current) ==
    IF graphId = SAMPLE_GRAPH_ID
    THEN [graphData |-> sampleGraphData, currentGraphId |-> SAMPLE_GRAPH_ID,
          current |-> SAMPLE_GRAPH_ID]
    ELSE IF graphId \in DOMAIN graphs
    THEN [graphData |-> graphs[graphId].data, currentGraphId |-> graphs[graphId].id,
          current |-> graphs[graphId].id]
    ELSE [graphData |-> state.graphData, currentGraphId |-> state.currentGraphId,
          current |-> current]

\* deleteGraph of lib/storage as handleDeleteGraph calls it: the stored
\* graphs afterwards; nothing is deleted for the sample id.
handleDeleteGraph(graphs, graphId) ==
    IF graphId = SAMPLE_GRAPH_ID THEN graphs ELSE MapDelete(graphs, graphId)

\* handleSaveGraph: const id = currentGraphId || generateGraphId()
SavedId(currentGraphId, generated) ==
    IF currentGraphId # None THEN currentGraphId ELSE generateGraphId(generated + 1)

(***************************************************************************)
(* The parts of the state a specification does not use stay at these       *)
(* values.                                                                 *)
(***************************************************************************)
NoOpts == [depthOutgoing |-> 0, depthIncoming |-> 0,
           followOutgoing |-> FALSE, followIncoming |-> FALSE]

focusIdle ==
    /\ fEdges = <<>>
    /\ fNodes = <<>>
    /\ fFocus = None
    /\ fOpts = NoOpts
    /\ fNbh = {}
    /\ fFiltered = None
    /\ fpc = "idle"

portIdle ==
    /\ pEdges = <<>>
    /\ nodePos = <<>>
    /\ pHorizontal = TRUE
    /\ portSidesMap = <<>>
    /\ elkPortSide = <<>>
    /\ ppc = "idle"

viewerIdle ==
    /\ graphData = None
    /\ fullGraphData = NoGraph
    /\ fullNodes = <<>>
    /\ fullEdges = <<>>
    /\ viewNodes = <<>>
    /\ viewEdges = <<>>
    /\ focusMode = FocusOff
    /\ inFlight = <<>>
    /\ lastRequest = ExitRequest

edgeIdle ==
    /\ eNodes = <<>>
    /\ eSection = NoSection
    /\ eSource = [x |-> 0, y |-> 0]
    /\ eTarget = [x |-> 0, y |-> 0]
    /\ eData = NoData
    /\ eWaypoints = <<>>
    /\ ePath = NoPath
    /\ epc = "idle"

sepIdle ==
    /\ sEdges = <<>>
    /\ sPaths = <<>>
    /\ sGroups = <<>>
    /\ sProcessed = <<>>
    /\ spc = "idle"

prioIdle ==
    /\ qNodes = <<>>
    /\ qEdges = <<>>
    /\ qPriorities = <<>>
    /\ qAreaNodes = <<>>
    /\ qStandalone = <<>>
    /\ qpc = "idle"

bfsIdle ==
    /\ bEdges = <<>>
    /\ bStart = None
    /\ bBound = 0
    /\ bOutgoing = TRUE
    /\ bQueue = <<>>
    /\ bDepths = <<>>
    /\ bExpanded = {}
    /\ bpc = "idle"

mgrIdle ==
    /\ mGraphData = None
    /\ mCurrentGraphId = None
    /\ mSavedGraphs = <<>>
    /\ mStoredCurrent = None
    /\ mGenerated = 0
    /\ mpc = "idle"

routerIdle ==
    /\ rNodes = <<>>
    /\ rStart = [x |-> 0, y |-> 0]
    /\ rEnd = [x |-> 0, y |-> 0]
    /\ rResult = [path |-> <<>>, ended |-> "idle", iterations |-> 0]
    /\ rOptimized = <<>>
    /\ rpc = "idle"

(***************************************************************************)
(* Inputs of the focus functions.                                          *)
(***************************************************************************)
GroupNode(id, parent) == [id |-> id, parentId |-> parent, type |-> "groupNode"]
DeviceNode(id, parent) == [id |-> id, parentId |-> parent, type |-> "deviceNode"]

\* The node lists drawn: containers R1 and R2 (R2 top-level or nested in R1),
\* devices A and B anywhere, device C top-level, in R1, or absent (so that an
\* edge naming C dangles).  Containers come first, as flattenElkGroups emits.
NodeLists ==
    { <<GroupNode("R1", None), GroupNode("R2", p2),
        DeviceNode("A", pa), DeviceNode("B", pb)>>
      \o (IF pc = "absent" THEN <<>> ELSE <<DeviceNode("C", pc)>>) :
        p2 \in {None, "R1"}, pa \in {None, "R1", "R2"},
        pb \in {None, "R1", "R2"}, pc \in {None, "R1", "absent"} }

OptsSet == [depthOutgoing : 0..MaxDepth, depthIncoming : 0..MaxDepth,
            followOutgoing : BOOLEAN, followIncoming : BOOLEAN]

\* ---- calculateNeighborhood applied to every drawn input
InitNeighborhood ==
    /\ fEdges \in EdgeLists
    /\ fNodes = <<>>
    /\ fFocus \in DeviceIds
    /\ fOpts \in OptsSet
    /\ fNbh = {}
    /\ fFiltered = None
    /\ fpc = "input"
    /\ portIdle
    /\ viewerIdle
    /\ routerIdle
    /\ edgeIdle
    /\ sepIdle
    /\ prioIdle
    /\ bfsIdle
    /\ mgrIdle

CalcNeighborhood ==
    /\ fpc = "input"
    /\ fNbh' = calculateNeighborhood(fFocus, fOpts.depthOutgoing, fOpts.depthIncoming,
                                     fEdges, fOpts.followOutgoing, fOpts.followIncoming)
    /\ fpc' = "calculated"
    /\ UNCHANGED <<fEdges, fNodes, fFocus, fOpts, fFiltered>>
    /\ UNCHANGED <<portVars, viewerVars, routerVars, edgeVars, sepVars, prioVars, bfsVars, mgrVars>>

NextNeighborhood == CalcNeighborhood

SpecNeighborhood == InitNeighborhood /\ [][NextNeighborhood]_vars

\* ---- filterGraphByNeighborhood applied to every drawn graph and neighbourhood
InitFilter ==
    /\ fEdges \in EdgeLists
    /\ fNodes \in NodeLists
    /\ fFocus = None
    /\ fOpts = NoOpts
    /\ fNbh \in (SUBSET DeviceIds) \ {{}}
    /\ fFiltered = None
    /\ fpc = "neighborhood"
    /\ portIdle
    /\ viewerIdle
    /\ routerIdle
    /\ edgeIdle
    /\ sepIdle
    /\ prioIdle
    /\ bfsIdle
    /\ mgrIdle

FilterGraph ==
    /\ fpc = "neighborhood"
    /\ fFiltered' = filterGraphByNeighborhood(fNodes, fEdges, fNbh)
    /\ fpc' = "filtered"
    /\ UNCHANGED <<fEdges, fNodes, fFocus, fOpts, fNbh>>
    /\ UNCHANGED <<portVars, viewerVars, routerVars, edgeVars, sepVars, prioVars, bfsVars, mgrVars>>

NextFilter == FilterGraph

SpecFilter == InitFilter /\ [][NextFilter]_vars

(***************************************************************************)
(* Inputs of port-side resolution: a graph and the solver's positions.     *)
(***************************************************************************)
Coords == {-100, 0, 100}

\* Edges between devices, each naming port p on at least one end.
PortKeyPairs == {<<"p", "p">>, <<"p", None>>, <<None, "p">>}

PortEdgeLists ==
    UNION { { [i \in 1..n |-> [id |-> i, source |-> s[i], target |-> t[i],
                               sourcePortKey |-> k[i][1], targetPortKey |-> k[i][2]]] :
                s \in [1..n -> DeviceIds], t \in [1..n -> DeviceIds],
                k \in [1..n -> PortKeyPairs] } :
            n \in 0..MaxEdges }

\* The solver's positions: A at the origin, B anywhere on the coordinate
\* grid, C right of A (above or below it) or not laid out at all.
Positions ==
    { [n \in {"A", "B"} |-> IF n = "A" THEN [x |-> 0, y |-> 0] ELSE [x |-> bx, y |-> by]] :
        bx \in Coords, by \in Coords }
    \cup
    { [n \in DeviceIds |-> IF n = "A" THEN [x |-> 0, y |-> 0]
                           ELSE IF n = "B" THEN [x |-> bx, y |-> by]
                           ELSE [x |-> 100, y |-> cy]] :
        bx \in Coords, by \in Coords, cy \in {-100, 100} }

InitPorts ==
    /\ pEdges \in PortEdgeLists
    /\ nodePos \in Positions
    /\ pHorizontal \in BOOLEAN
    /\ portSidesMap = <<>>
    /\ elkPortSide = solverPortSides(nodePos, pHorizontal)
    /\ ppc = "layouted"
    /\ focusIdle
    /\ viewerIdle
    /\ routerIdle
    /\ edgeIdle
    /\ sepIdle
    /\ prioIdle
    /\ bfsIdle
    /\ mgrIdle

\* The post-processing of layoutGraph after `await elk.layout`.
ResolvePorts ==
    /\ ppc = "layouted"
    /\ elkPortSide' = fixedPortSides(pEdges, nodePos, pHorizontal)
    /\ portSidesMap' = buildPortSidesMap(pEdges, nodePos, pHorizontal)
    /\ ppc' = "resolved"
    /\ UNCHANGED <<pEdges, nodePos, pHorizontal>>
    /\ UNCHANGED <<focusVars, viewerVars, routerVars, edgeVars, sepVars, prioVars, bfsVars, mgrVars>>

NextPorts == ResolvePorts

SpecPorts == InitPorts /\ [][NextPorts]_vars

(***************************************************************************)
(* The viewer: graphs loaded, requests and completions.                    *)
(***************************************************************************)
\* G1: devices A and B in container R1, C standalone, A -> B -> C.
G1 == [nodes |-> <<[id |-> "A", areaId |-> "R1"], [id |-> "B", areaId |-> "R1"],
                   [id |-> "C", areaId |-> None]>>,
       areas |-> <<[id |-> "R1", parentId |-> None]>>,
       edges |-> <<[id |-> 1, source |-> "A", target |-> "B"],
                   [id |-> 2, source |-> "B", target |-> "C"]>>]

\* G2: two standalone devices, B -> A.
G2 == [nodes |-> <<[id |-> "A", areaId |-> None], [id |-> "B", areaId |-> None]>>,
       areas |-> <<>>,
       edges |-> <<[id |-> 1, source |-> "B", target |-> "A"]>>]

\* G3: device A in container R2 nested in container R1, B standalone, A -> B.
G3 == [nodes |-> <<[id |-> "A", areaId |-> "R2"], [id |-> "B", areaId |-> None]>>,
       areas |-> <<[id |-> "R1", parentId |-> None], [id |-> "R2", parentId |-> "R1"]>>,
       edges |-> <<[id |-> 1, source |-> "A", target |-> "B"]>>]

Graphs == {G1, G2, G3}

\* Mount: the layout effect has run for the first graphData.
InitViewer ==
    /\ graphData \in Graphs
    /\ fullGraphData = NoGraph
    /\ fullNodes = <<>>
    /\ fullEdges = <<>>
    /\ viewNodes = <<>>
    /\ viewEdges = <<>>
    /\ focusMode = FocusOff
    /\ inFlight = <<[kind |-> "load", graph |-> graphData, focusMode |-> FocusOff]>>
    /\ lastRequest = LoadRequest(graphData)
    /\ focusIdle
    /\ portIdle
    /\ routerIdle
    /\ edgeIdle
    /\ sepIdle
    /\ prioIdle
    /\ bfsIdle
    /\ mgrIdle

\* The parent passes another graphData: the effect validates it and calls
\* layoutGraph(graphData, direction).
LoadGraph ==
    /\ Len(inFlight) < MaxInFlight
    /\ \E g \in Graphs \ {graphData} :
        /\ graphData' = g
        /\ inFlight' = Append(inFlight,
                              [kind |-> "load", graph |-> g, focusMode |-> FocusOff])
        /\ lastRequest' = LoadRequest(g)
    /\ UNCHANGED <<fullGraphData, fullNodes, fullEdges, viewNodes, viewEdges, focusMode>>
    /\ UNCHANGED <<focusVars, portVars, routerVars, edgeVars, sepVars, prioVars, bfsVars, mgrVars>>

\* layoutGraph(...).then(...) of the effect.
CompleteLoad ==
    /\ inFlight # <<>>
    /\ Head(inFlight).kind = "load"
    /\ LET g == Head(inFlight).graph
       IN /\ fullGraphData' = g
          /\ fullNodes' = LayoutNodes(g)
          /\ fullEdges' = LayoutEdges(g)
          /\ focusMode' = FocusOff
          /\ viewNodes' = LayoutNodes(g)
          /\ viewEdges' = LayoutEdges(g)
    /\ inFlight' = Tail(inFlight)
    /\ UNCHANGED <<graphData, lastRequest>>
    /\ UNCHANGED <<focusVars, portVars, routerVars, edgeVars, sepVars, prioVars, bfsVars, mgrVars>>

\* A plausible slip: focus mode is switched off but the depth and direction
\* settings stay as the user left them.
ClickFocusedNodeKeepingSettings ==
    /\ focusMode.enabled
    /\ \E i \in 1..Len(viewNodes) :
        /\ viewNodes[i].type = "deviceNode"
        /\ viewNodes[i].id = focusMode.focusedNodeId
    /\ focusMode' = [focusMode EXCEPT !.enabled = FALSE, !.focusedNodeId = None]
    /\ viewNodes' = fullNodes
    /\ viewEdges' = fullEdges
    /\ lastRequest' = ExitRequest
    /\ UNCHANGED <<graphData, fullGraphData, fullNodes, fullEdges, inFlight>>
    /\ UNCHANGED <<focusVars, portVars, routerVars, edgeVars, sepVars, prioVars, bfsVars, mgrVars>>

\* handleNodeClick on the focused node: focus mode is left at once.
ClickFocusedNode ==
    /\ focusMode.enabled
    /\ \E i \in 1..Len(viewNodes) :
        /\ viewNodes[i].type = "deviceNode"
        /\ viewNodes[i].id = focusMode.focusedNodeId
    /\ focusMode' = FocusOff
    /\ viewNodes' = fullNodes
    /\ viewEdges' = fullEdges
    /\ lastRequest' = ExitRequest
    /\ UNCHANGED <<graphData, fullGraphData, fullNodes, fullEdges, inFlight>>
    /\ UNCHANGED <<focusVars, portVars, routerVars, edgeVars, sepVars, prioVars, bfsVars, mgrVars>>

\* handleNodeClick on another device node, up to `await layoutGraph`.
ClickNode ==
    /\ Len(inFlight) < MaxInFlight
    /\ fullGraphData # NoGraph
    /\ \E i \in 1..Len(viewNodes) :
        /\ viewNodes[i].type = "deviceNode"
        /\ ~(focusMode.enabled /\ focusMode.focusedNodeId = viewNodes[i].id)
        /\ LET fm == [focusMode EXCEPT !.enabled = TRUE,
                                       !.focusedNodeId = viewNodes[i].id]
               filteredGraphData == FocusGraph(viewNodes[i].id, focusMode)
           IN /\ inFlight' = Append(inFlight, [kind |-> "focus",
                                               graph |-> filteredGraphData,
                                               focusMode |-> fm])
              /\ lastRequest' = FocusRequest(filteredGraphData, fm)
    /\ UNCHANGED <<graphData, fullGraphData, fullNodes, fullEdges, viewNodes, viewEdges,
                   focusMode>>
    /\ UNCHANGED <<focusVars, portVars, routerVars, edgeVars, sepVars, prioVars, bfsVars, mgrVars>>

\* updateFocusMode(updates), up to `await layoutGraph`; the panel that calls
\* it is rendered only while focus mode is enabled.
UpdateFocusMode ==
    /\ Len(inFlight) < MaxInFlight
    /\ focusMode.enabled /\ focusMode.focusedNodeId # None /\ fullGraphData # NoGraph
    /\ \E newFocusMode \in
            {[focusMode EXCEPT !.depthOutgoing = d] : d \in 1..MaxDepth}
            \cup {[focusMode EXCEPT !.depthIncoming = d] : d \in 1..MaxDepth}
            \cup {[focusMode EXCEPT !.followOutgoing = b] : b \in BOOLEAN}
            \cup {[focusMode EXCEPT !.followIncoming = b] : b \in BOOLEAN} :
        /\ newFocusMode # focusMode
        /\ LET filteredGraphData == FocusGraph(focusMode.focusedNodeId, newFocusMode)
           IN /\ inFlight' = Append(inFlight, [kind |-> "focus",
                                               graph |-> filteredGraphData,
                                               focusMode |-> newFocusMode])
              /\ lastRequest' = FocusRequest(filteredGraphData, newFocusMode)
    /\ UNCHANGED <<graphData, fullGraphData, fullNodes, fullEdges, viewNodes, viewEdges,
                   focusMode>>
    /\ UNCHANGED <<focusVars, portVars, routerVars, edgeVars, sepVars, prioVars, bfsVars, mgrVars>>

\* The code after `await layoutGraph(filteredGraphData, direction)` in
\* handleNodeClick and in updateFocusMode: setNodes, setEdges, setFocusMode
\* with the values the call closed over.
CompleteFocus ==
    /\ inFlight # <<>>
    /\ Head(inFlight).kind = "focus"
    /\ viewNodes' = LayoutNodes(Head(inFlight).graph)
    /\ viewEdges' = LayoutEdges(Head(inFlight).graph)
    /\ focusMode' = Head(inFlight).focusMode
    /\ inFlight' = Tail(inFlight)
    /\ UNCHANGED <<graphData, fullGraphData, fullNodes, fullEdges, lastRequest>>
    /\ UNCHANGED <<focusVars, portVars, routerVars, edgeVars, sepVars, prioVars, bfsVars, mgrVars>>

\* onExitFocus of the panel.
ExitFocus ==
    /\ focusMode.enabled
    /\ focusMode' = FocusOff
    /\ viewNodes' = fullNodes
    /\ viewEdges' = fullEdges
    /\ lastRequest' = ExitRequest
    /\ UNCHANGED <<graphData, fullGraphData, fullNodes, fullEdges, inFlight>>
    /\ UNCHANGED <<focusVars, portVars, routerVars, edgeVars, sepVars, prioVars, bfsVars, mgrVars>>

Next ==
    \/ LoadGraph
    \/ CompleteLoad
    \/ ClickFocusedNode
    \/ ClickNode
    \/ UpdateFocusMode
    \/ CompleteFocus
    \/ ExitFocus

Spec == InitViewer /\ [][Next]_vars

(***************************************************************************)
(* Inputs of the router: obstacle nodes and the two end points.            *)
(***************************************************************************)
Box(x, y) == [x |-> x, y |-> y, width |-> 10, height |-> 10]

\* No node; one node at the origin (its padded box covers the cells
\* -2..2 x -2..2); four nodes whose padded boxes leave the single cell
\* (0, 0) free and enclosed; the source node and the target node of an edge
\* from (-90, 5), on the right border of the one, to (80, 5), on the left
\* border of the other.
RouterNodeLists ==
    { <<>>,
      <<Box(0, 0)>>,
      <<Box(-100, 0), Box(80, 0), Box(0, -100), Box(0, 80)>>,
      <<Box(-100, 0), Box(80, 0)>> }

RouterPoints ==
    { [x |-> 15, y |-> 15], [x |-> -200, y |-> 15], [x |-> 220, y |-> 15],
      [x |-> 15, y |-> -200], [x |-> -60, y |-> 15], [x |-> -200, y |-> -200],
      [x |-> 100, y |-> 130], [x |-> -290, y |-> 310],
      [x |-> -90, y |-> 5], [x |-> 80, y |-> 5] }

InitRouter ==
    /\ rNodes \in RouterNodeLists
    /\ rStart \in RouterPoints
    /\ rEnd \in RouterPoints
    /\ rResult = [path |-> <<>>, ended |-> "idle", iterations |-> 0]
    /\ rOptimized = <<>>
    /\ rpc = "call"
    /\ focusIdle
    /\ portIdle
    /\ viewerIdle
    /\ edgeIdle
    /\ sepIdle
    /\ prioIdle
    /\ bfsIdle
    /\ mgrIdle

\* processOrthogonalRouting for an edge without solver bend points:
\* findOrthogonalPath(start, end, grid) on the grid of the nodes, then
\* optimizePath.
FindPath ==
    /\ rpc = "call"
    /\ rResult' = findOrthogonalPath(rStart, rEnd, addNodeObstacles(rNodes))
    /\ rOptimized' = optimizePath(rResult'.path)
    /\ rpc' = "returned"
    /\ UNCHANGED <<rNodes, rStart, rEnd>>
    /\ UNCHANGED <<focusVars, portVars, viewerVars, edgeVars, sepVars, prioVars, bfsVars, mgrVars>>

NextRouter == FindPath

SpecRouter == InitRouter /\ [][NextRouter]_vars

(***************************************************************************)
(* Inputs of the edge pipeline.                                            *)
(***************************************************************************)
MaxBends == 3

BendPoints == { [x |-> 40, y |-> 0], [x |-> 40, y |-> 40],
                [x |-> 40, y |-> 80], [x |-> 80, y |-> 80] }

BendLists == UNION { [1..n -> BendPoints] : n \in 0..MaxBends }

EdgeTargets == { [x |-> 120, y |-> 80], [x |-> -120, y |-> 0] }

\* No node; a node with position and size; a node the solver gave no
\* coordinates; a node without style or measured size.
EdgeNodeLists ==
    { <<>>,
      <<[position |-> [x |-> 200, y |-> 200], width |-> 10, height |-> 10]>>,
      <<[position |-> NoPoint, width |-> 10, height |-> 10]>>,
      <<[position |-> [x |-> 200, y |-> 200], width |-> 0, height |-> 0]>> }

InitEdge ==
    /\ eNodes \in EdgeNodeLists
    /\ eSource = [x |-> 0, y |-> 0]
    /\ eTarget \in EdgeTargets
    /\ \/ eSection = NoSection
       \/ \E s \in {NoPoint, eSource}, t \in {NoPoint, eTarget}, b \in BendLists :
              eSection = [present |-> TRUE, startPoint |-> s, endPoint |-> t,
                          bendPoints |-> b]
    /\ eData = NoData
    /\ eWaypoints = <<>>
    /\ ePath = NoPath
    /\ epc = "layouted"
    /\ focusIdle
    /\ portIdle
    /\ viewerIdle
    /\ routerIdle
    /\ sepIdle
    /\ prioIdle
    /\ bfsIdle
    /\ mgrIdle

\* handleNodeClick / updateFocusMode after the layout: mapEdgesToReactFlow,
\* then processOrthogonalRouting inside try/catch.  An exception of
\* mapEdgesToReactFlow leaves the handler.
BuildEdge ==
    /\ epc = "layouted"
    /\ LET mapped == mapEdgesToReactFlow(eSection)
           routed == processOrthogonalRouting(eSection, eNodes)
       IN IF mapped.thrown
          THEN /\ epc' = "thrown"
               /\ UNCHANGED eData
          ELSE /\ epc' = "built"
               /\ eData' = [elkPoints |-> mapped.elkPoints,
                            controlPoints |-> routed.controlPoints,
                            fullPath |-> routed.fullPath]
    /\ UNCHANGED <<eNodes, eSection, eSource, eTarget, eWaypoints, ePath>>
    /\ UNCHANGED <<focusVars, portVars, viewerVars, routerVars, sepVars, prioVars, bfsVars, mgrVars>>

\* React renders the edge: SmartEdge(props).
RenderEdge ==
    /\ epc = "built"
    /\ eWaypoints' = IF Len(eData.elkPoints) > 0
                     THEN SmartEdgeWaypoints(eSource, eTarget, eData.elkPoints)
                     ELSE <<>>
    /\ ePath' = SmartEdge(eSource, eTarget, eData)
    /\ epc' = "rendered"
    /\ UNCHANGED <<eNodes, eSection, eSource, eTarget, eData>>
    /\ UNCHANGED <<focusVars, portVars, viewerVars, routerVars, sepVars, prioVars, bfsVars, mgrVars>>

NextEdge == BuildEdge \/ RenderEdge

SpecEdge == InitEdge /\ [][NextEdge]_vars

(***************************************************************************)
(* Inputs of the separation: edges between nodes whose ids may hold a '-', *)
(* each with the path the first pass gave it.                              *)
(***************************************************************************)
MaxSepEdges == 3

SepEndpoints == { <<"a", "b">>, <<"b", "a">>, <<"a-b", "a">>, <<"a", "b-a">> }

SepPaths ==
    { <<[x |-> 0, y |-> 0], [x |-> 40, y |-> 0], [x |-> 40, y |-> 40]>>,
      <<[x |-> 0, y |-> 0], [x |-> 0, y |-> 40], [x |-> 40, y |-> 40]>>,
      <<[x |-> 0, y |-> 0], [x |-> -40, y |-> 0]>>,
      <<>> }

InitSeparate ==
    /\ \E n \in 1..MaxSepEdges :
          /\ \E ends \in [1..n -> SepEndpoints] :
                sEdges = [i \in 1..n |->
                             [id |-> i, source |-> ends[i][1], target |-> ends[i][2]]]
          /\ sPaths \in [1..n -> SepPaths]
    /\ sGroups = <<>>
    /\ sProcessed = <<>>
    /\ spc = "routed"
    /\ focusIdle
    /\ portIdle
    /\ viewerIdle
    /\ routerIdle
    /\ edgeIdle
    /\ prioIdle
    /\ bfsIdle
    /\ mgrIdle

\* The second and third pass of processOrthogonalRouting.
Separate ==
    /\ spc = "routed"
    /\ sGroups' = groupParallelEdges(sEdges)
    /\ sProcessed' = processedEdges(sEdges, sPaths)
    /\ spc' = "separated"
    /\ UNCHANGED <<sEdges, sPaths>>
    /\ UNCHANGED <<focusVars, portVars, viewerVars, routerVars, edgeVars, prioVars, bfsVars, mgrVars>>

NextSeparate == Separate

SpecSeparate == InitSeparate /\ [][NextSeparate]_vars

(***************************************************************************)
(* Inputs of the node ordering: the three devices in any order, each       *)
(* standalone or inside area R1, and edges between them naming ports.      *)
(***************************************************************************)
MaxPrioEdges == 2

DeviceOrders ==
    {o \in [1..3 -> DeviceIds] : \A i, j \in 1..3 : i # j => o[i] # o[j]}

PrioEndpoints == {pr \in DeviceIds \X DeviceIds : pr[1] # pr[2]}

\* <<sourcePortKey, targetPortKey>>: port p is on every device, o on B and
\* i on A only.
PrioKeyPairs == {<<"p", "p">>, <<"o", "i">>}

InitPriority ==
    /\ \E o \in DeviceOrders : \E a \in [1..3 -> {None, "R1"}] :
          qNodes = [i \in 1..3 |-> [id |-> o[i], areaId |-> a[i]]]
    /\ \E n \in 0..MaxPrioEdges :
          \E ends \in [1..n -> PrioEndpoints] : \E keys \in [1..n -> PrioKeyPairs] :
             qEdges = [i \in 1..n |->
                          [source |-> ends[i][1], target |-> ends[i][2],
                           sourcePortKey |-> keys[i][1], targetPortKey |-> keys[i][2]]]
    /\ qPriorities = <<>>
    /\ qAreaNodes = <<>>
    /\ qStandalone = <<>>
    /\ qpc = "loaded"
    /\ focusIdle
    /\ portIdle
    /\ viewerIdle
    /\ routerIdle
    /\ edgeIdle
    /\ sepIdle
    /\ bfsIdle
    /\ mgrIdle

\* layoutGraph up to the construction of elkGraph.
BuildElkGraph ==
    /\ qpc = "loaded"
    /\ qPriorities' = computeNodePriorities(qNodes, qEdges)
    /\ qAreaNodes' = [a \in {"R1"} |-> areaNodeOrder(qNodes, a, qPriorities')]
    /\ qStandalone' = standaloneNodeOrder(qNodes, qPriorities')
    /\ qpc' = "built"
    /\ UNCHANGED <<qNodes, qEdges>>
    /\ UNCHANGED <<focusVars, portVars, viewerVars, routerVars, edgeVars, sepVars, bfsVars, mgrVars>>

NextPriority == BuildElkGraph

SpecPriority == InitPriority /\ [][NextPriority]_vars

(***************************************************************************)
(* One directional BFS of calculateNeighborhood, one loop iteration per    *)
(* step.                                                                   *)
(***************************************************************************)
InitBFS ==
    /\ bEdges \in EdgeLists
    /\ bStart \in DeviceIds
    /\ bBound \in 0..MaxDepth
    /\ bOutgoing \in BOOLEAN
    /\ bQueue = <<[nodeId |-> bStart, depth |-> 0]>>
    /\ bDepths = bStart :> 0
    /\ bExpanded = {}
    /\ bpc = "loop"
    /\ focusIdle
    /\ portIdle
    /\ viewerIdle
    /\ routerIdle
    /\ edgeIdle
    /\ sepIdle
    /\ prioIdle
    /\ mgrIdle

\* One iteration of `while (queue.length > 0)`: shift, the bound test, and
\* edges.forEach.
BfsIteration ==
    /\ bpc = "loop"
    /\ bQueue # <<>>
    /\ LET head == Head(bQueue)
           st == IF head.depth >= bBound
                 THEN [depths |-> bDepths, queue |-> Tail(bQueue)]
                 ELSE VisitEdges(bEdges, 1, head.nodeId, head.depth,
                                 [depths |-> bDepths, queue |-> Tail(bQueue)], bOutgoing)
       IN /\ bQueue' = st.queue
          /\ bDepths' = st.depths
          /\ bExpanded' = IF head.depth >= bBound THEN bExpanded
                          ELSE bExpanded \cup {head}
    /\ UNCHANGED <<bEdges, bStart, bBound, bOutgoing, bpc>>
    /\ UNCHANGED <<focusVars, portVars, viewerVars, routerVars, edgeVars, sepVars, prioVars, mgrVars>>

\* The loop condition fails: the loop is left.
BfsExit ==
    /\ bpc = "loop"
    /\ bQueue = <<>>
    /\ bpc' = "done"
    /\ UNCHANGED <<bEdges, bStart, bBound, bOutgoing, bQueue, bDepths, bExpanded>>
    /\ UNCHANGED <<focusVars, portVars, viewerVars, routerVars, edgeVars, sepVars, prioVars, mgrVars>>

NextBFS == BfsIteration \/ BfsExit

SpecBFS == InitBFS /\ [][NextBFS]_vars

\* The loop runs to its end: a single thread, never suspended for good.
SpecBFSFair == SpecBFS /\ WF_vars(NextBFS)

(***************************************************************************)
(* The graph manager: upload, save, load, delete and a reload of the page. *)
(***************************************************************************)
MaxSaved == 2

UploadedData == {"u1", "u2"}
SaveNames == {"n1", "n2"}

\* Mount with an empty storage: loadInitialGraph falls back to the sample.
InitManager ==
    /\ mGraphData = sampleGraphData
    /\ mCurrentGraphId = SAMPLE_GRAPH_ID
    /\ mSavedGraphs = <<>>
    /\ mStoredCurrent = None
    /\ mGenerated = 0
    /\ mpc = "mounted"
    /\ focusIdle
    /\ portIdle
    /\ viewerIdle
    /\ routerIdle
    /\ edgeIdle
    /\ sepIdle
    /\ prioIdle
    /\ bfsIdle

\* handleFileUpload / handlePasteJson with a valid graph: loadGraphData.
UploadGraph ==
    /\ mpc = "mounted"
    /\ \E data \in UploadedData : mGraphData' = data
    /\ mCurrentGraphId' = None
    /\ UNCHANGED <<mSavedGraphs, mStoredCurrent, mGenerated, mpc>>
    /\ UNCHANGED <<focusVars, portVars, viewerVars, routerVars, edgeVars, sepVars, prioVars, bfsVars>>

\* handleSaveGraph with a name that is not taken.
SaveGraph ==
    /\ mpc = "mounted"
    /\ mGraphData # None
    /\ mCurrentGraphId # None \/ mGenerated < MaxSaved
    /\ \E name \in SaveNames :
        /\ ~isNameTaken(mSavedGraphs, name, mCurrentGraphId)
        /\ LET id == SavedId(mCurrentGraphId, mGenerated)
           IN /\ mSavedGraphs' = MapSet(mSavedGraphs, id,
                                        [id |-> id, name |-> name, data |-> mGraphData])
              /\ mCurrentGraphId' = id
              /\ mStoredCurrent' = id
    /\ mGenerated' = IF mCurrentGraphId # None THEN mGenerated ELSE mGenerated + 1
    /\ UNCHANGED <<mGraphData, mpc>>
    /\ UNCHANGED <<focusVars, portVars, viewerVars, routerVars, edgeVars, sepVars, prioVars, bfsVars>>

\* handleLoadGraph(e.target.value): the options are the sample and the
\* saved entries.
LoadSavedGraph ==
    /\ mpc = "mounted"
    /\ \E graphId \in {SAMPLE_GRAPH_ID} \cup DOMAIN mSavedGraphs :
        LET r == handleLoadGraph(mSavedGraphs, graphId,
                     [graphData |-> mGraphData, currentGraphId |-> mCurrentGraphId],
                     mStoredCurrent)
        IN /\ mGraphData' = r.graphData
           /\ mCurrentGraphId' = r.currentGraphId
           /\ mStoredCurrent' = r.current
    /\ UNCHANGED <<mSavedGraphs, mGenerated, mpc>>
    /\ UNCHANGED <<focusVars, portVars, viewerVars, routerVars, edgeVars, sepVars, prioVars, bfsVars>>

\* handleDeleteGraph(currentGraphId), confirmed: the button is shown for a
\* current graph other than the sample; the sample is loaded afterwards.
DeleteGraph ==
    /\ mpc = "mounted"
    /\ mCurrentGraphId # None /\ mCurrentGraphId # SAMPLE_GRAPH_ID
    /\ mSavedGraphs' = handleDeleteGraph(mSavedGraphs, mCurrentGraphId)
    /\ mGraphData' = sampleGraphData
    /\ mCurrentGraphId' = SAMPLE_GRAPH_ID
    /\ mStoredCurrent' = SAMPLE_GRAPH_ID
    /\ UNCHANGED <<mGenerated, mpc>>
    /\ UNCHANGED <<focusVars, portVars, viewerVars, routerVars, edgeVars, sepVars, prioVars, bfsVars>>

\* The page is loaded again: loadInitialGraph reads the storage.
Remount ==
    /\ mpc = "mounted"
    /\ IF mStoredCurrent # None /\ mStoredCurrent \in DOMAIN mSavedGraphs
       THEN /\ mGraphData' = mSavedGraphs[mStoredCurrent].data
            /\ mCurrentGraphId' = mSavedGraphs[mStoredCurrent].id
       ELSE /\ mGraphData' = sampleGraphData
            /\ mCurrentGraphId' = SAMPLE_GRAPH_ID
    /\ UNCHANGED <<mSavedGraphs, mStoredCurrent, mGenerated, mpc>>
    /\ UNCHANGED <<focusVars, portVars, viewerVars, routerVars, edgeVars, sepVars, prioVars, bfsVars>>

NextManager == UploadGraph \/ SaveGraph \/ LoadSavedGraph \/ DeleteGraph \/ Remount

SpecManager == InitManager /\ [][NextManager]_vars

(***************************************************************************)
(* C1: calculateNeighborhood returns exactly the focus node, the nodes     *)
(* within depthOutgoing hops along source -> target edges if outgoing is   *)
(* enabled, and the nodes within depthIncoming hops along target -> source *)
(* edges if incoming is enabled; directions are never mixed in one path.   *)
(***************************************************************************)
RECURSIVE ReachWithin(_, _, _, _)
ReachWithin(start, k, edges, outgoing) ==
    IF k <= 0 THEN {start}
    ELSE LET prev == ReachWithin(start, k - 1, edges, outgoing)
         IN prev \cup {IF outgoing THEN edges[i].target ELSE edges[i].source :
                        i \in {j \in 1..Len(edges) :
                                 (IF outgoing THEN edges[j].source
                                              ELSE edges[j].target) \in prev}}

C1_NeighborhoodIsBoundedReach ==
    fpc = "calculated" =>
        fNbh = {fFocus}
               \cup (IF fOpts.followOutgoing
                     THEN ReachWithin(fFocus, fOpts.depthOutgoing, fEdges, TRUE) ELSE {})
               \cup (IF fOpts.followIncoming
                     THEN ReachWithin(fFocus, fOpts.depthIncoming, fEdges, FALSE) ELSE {})

\* The spec's example: A -> B, B -> C, focus A, outgoing depth 1, incoming off.
C1_Witness ==
    /\ fpc = "calculated"
    /\ Len(fEdges) = 2
    /\ fEdges[1].source = "A" /\ fEdges[1].target = "B"
    /\ fEdges[2].source = "B" /\ fEdges[2].target = "C"
    /\ fFocus = "A"
    /\ fOpts.depthOutgoing = 1 /\ fOpts.followOutgoing /\ ~fOpts.followIncoming
    /\ fNbh = {"A", "B"}

(***************************************************************************)
(* C2: in the output of filterGraphByNeighborhood an input edge is kept    *)
(* exactly when both its source and its target are in the neighbourhood,   *)
(* and nothing else is in the edge list.                                   *)
(***************************************************************************)
KeptEdgeIds == {fFiltered.edges[j].id : j \in 1..Len(fFiltered.edges)}

C2_EdgesWithinNeighborhood ==
    fpc = "filtered" =>
        /\ \A i \in 1..Len(fEdges) :
              fEdges[i].id \in KeptEdgeIds
                  <=> (fEdges[i].source \in fNbh /\ fEdges[i].target \in fNbh)
        /\ \A j \in 1..Len(fFiltered.edges) :
              \E i \in 1..Len(fEdges) : fEdges[i] = fFiltered.edges[j]

\* One edge inside the neighbourhood is kept, one leaving it is dropped.
C2_Witness ==
    /\ fpc = "filtered"
    /\ Len(fEdges) = 2
    /\ Len(fFiltered.edges) = 1
    /\ \E i \in 1..2 : fEdges[i].source \in fNbh /\ fEdges[i].target \notin fNbh
    /\ \E a \in AreaIds : a \in fFiltered.parentAreas

(***************************************************************************)
(* C3: a container is in the output (its node list and parentAreas) only   *)
(* if one of its direct member nodes is in the neighbourhood; an ancestor  *)
(* is not retained because of a deeper descendant.                         *)
(***************************************************************************)
HasDirectMemberIn(areaId) ==
    \E i \in 1..Len(fNodes) :
        /\ fNodes[i].type = "deviceNode"
        /\ fNodes[i].parentId = areaId
        /\ fNodes[i].id \in fNbh

C3_ContainerNeedsDirectMember ==
    fpc = "filtered" =>
        /\ \A a \in fFiltered.parentAreas : HasDirectMemberIn(a)
        /\ \A j \in 1..Len(fFiltered.nodes) :
              fFiltered.nodes[j].type = "groupNode"
                  => HasDirectMemberIn(fFiltered.nodes[j].id)

\* R2 is nested in R1 and holds a neighbourhood node; R1's only direct
\* member is outside the neighbourhood: R2 is kept, R1 is not.
C3_Witness ==
    /\ fpc = "filtered"
    /\ FindNode(fNodes, "R2").parentId = "R1"
    /\ FindNode(fNodes, "A").parentId = "R2"
    /\ FindNode(fNodes, "B").parentId = "R1"
    /\ "A" \in fNbh /\ "B" \notin fNbh /\ "C" \notin fNbh
    /\ fFiltered.parentAreas = {"R2"}
    /\ \A j \in 1..Len(fFiltered.nodes) : fFiltered.nodes[j].id # "R1"


(***************************************************************************)
(* Port-side claims: the signed contribution of one edge to a port of      *)
(* nodeId along an axis, as the specification defines it (other - this     *)
(* when the node is the edge's source, the negation when it is the         *)
(* target; an endpoint without a position contributes nothing).            *)
(***************************************************************************)
Coord(n, axis) == IF axis = "x" THEN nodePos[n].x ELSE nodePos[n].y

SignedContribution(e, nodeId, axis) ==
    LET other == IF e.source = nodeId THEN e.target ELSE e.source
    IN IF other \notin DOMAIN nodePos THEN 0
       ELSE IF e.source = nodeId THEN Coord(other, axis) - Coord(nodeId, axis)
       ELSE -(Coord(other, axis) - Coord(nodeId, axis))

Qualifying(nodeId, portKey) ==
    {i \in 1..Len(pEdges) :
        \/ (pEdges[i].source = nodeId /\ pEdges[i].sourcePortKey = portKey)
        \/ (pEdges[i].target = nodeId /\ pEdges[i].targetPortKey = portKey)}

RECURSIVE SumOver(_, _, _)
SumOver(idx, nodeId, axis) ==
    IF idx = {} THEN 0
    ELSE LET i == CHOOSE j \in idx : TRUE
         IN SignedContribution(pEdges[i], nodeId, axis) + SumOver(idx \ {i}, nodeId, axis)

SignedSum(nodeId, portKey, axis) == SumOver(Qualifying(nodeId, portKey), nodeId, axis)

\* The sum the TB branch forms: other.y - this.y for every qualifying edge.
RECURSIVE PlainSumY(_, _)
PlainSumY(idx, nodeId) ==
    IF idx = {} THEN 0
    ELSE LET i == CHOOSE j \in idx : TRUE
             other == IF pEdges[i].source = nodeId THEN pEdges[i].target
                      ELSE pEdges[i].source
         IN (IF other \in DOMAIN nodePos THEN nodePos[other].y - nodePos[nodeId].y ELSE 0)
            + PlainSumY(idx \ {i}, nodeId)

BidirectionalPorts ==
    {<<n, k>> \in (DOMAIN nodePos) \X {"p", "i", "o"} :
        k \in DOMAIN NodePorts[n] /\ NodePorts[n][k] = "Bidirectional"}

(***************************************************************************)
(* C5: under horizontal layout a Bidirectional port with a qualifying edge *)
(* resolves to East exactly when its signed sum along x is > 0, and to     *)
(* West otherwise.                                                         *)
(***************************************************************************)
C5_HorizontalSideIsSignOfSum ==
    (ppc = "resolved" /\ pHorizontal) =>
        \A np \in BidirectionalPorts :
            Qualifying(np[1], np[2]) # {} =>
                portSidesMap[np[1]][np[2]] =
                    IF SignedSum(np[1], np[2], "x") > 0 THEN "EAST" ELSE "WEST"

\* The spec's first scenario: A at (0,0), B at (100,0), the single edge
\* A(port p) -> B: port p of A faces East.
C5_Witness ==
    /\ ppc = "resolved" /\ pHorizontal
    /\ nodePos["B"] = [x |-> 100, y |-> 0]
    /\ Len(pEdges) = 1
    /\ pEdges[1].source = "A" /\ pEdges[1].sourcePortKey = "p" /\ pEdges[1].target = "B"
    /\ portSidesMap["A"]["p"] = "EAST"

(***************************************************************************)
(* C6: under vertical layout a Bidirectional port with a qualifying edge   *)
(* resolves to South if its signed sum along y is > 0 and to North         *)
(* otherwise, with the same sign rule as on the horizontal axis.  Stated   *)
(* for the ports whose sum is not 0 (a sum of exactly 0 is C8's subject).  *)
(***************************************************************************)
C6_VerticalSideIsSignOfSum ==
    (ppc = "resolved" /\ ~pHorizontal) =>
        \A np \in BidirectionalPorts :
            (Qualifying(np[1], np[2]) # {} /\ SignedSum(np[1], np[2], "y") # 0) =>
                portSidesMap[np[1]][np[2]] =
                    IF SignedSum(np[1], np[2], "y") > 0 THEN "SOUTH" ELSE "NORTH"

(***************************************************************************)
(* C7: every side stored for a Bidirectional port is East or West under    *)
(* horizontal layout and North or South under vertical layout.             *)
(***************************************************************************)
C7_SideMatchesOrientation ==
    ppc = "resolved" =>
        \A np \in BidirectionalPorts :
            portSidesMap[np[1]][np[2]] \in
                (IF pHorizontal THEN {"EAST", "WEST"} ELSE {"NORTH", "SOUTH"})

\* Horizontal layout, ports with and without edges, all resolved.
C7_Witness ==
    /\ ppc = "resolved" /\ pHorizontal
    /\ Qualifying("A", "p") # {} /\ Qualifying("B", "p") = {}
    /\ portSidesMap["A"]["p"] = "WEST" /\ portSidesMap["B"]["p"] = "EAST"

C9_NoEdgeDefault ==
    ppc = "resolved" =>
        \A np \in BidirectionalPorts :
            Qualifying(np[1], np[2]) = {} =>
                portSidesMap[np[1]][np[2]] = IF pHorizontal THEN "EAST" ELSE "SOUTH"

\* Vertical layout: B.p has no edge while A.p has one.
C9_Witness ==
    /\ ppc = "resolved" /\ ~pHorizontal
    /\ Qualifying("B", "p") = {} /\ Qualifying("A", "p") # {}
    /\ portSidesMap["B"]["p"] = "SOUTH"
    /\ portSidesMap["A"]["p"] = "NORTH"


(***************************************************************************)
(* C4: a newer request supersedes the visible output of an older one:      *)
(* whenever no layout call is in flight, the displayed nodes, edges and    *)
(* focus state are those of the most recently issued request.              *)
(***************************************************************************)
C4_LatestRequestDisplayed ==
    inFlight = <<>> =>
        /\ focusMode = lastRequest.focusMode
        /\ lastRequest.kind = "load" =>
              /\ fullGraphData = lastRequest.graph
              /\ viewNodes = LayoutNodes(lastRequest.graph)
              /\ viewEdges = LayoutEdges(lastRequest.graph)
        /\ lastRequest.kind = "focus" =>
              /\ viewNodes = LayoutNodes(lastRequest.graph)
              /\ viewEdges = LayoutEdges(lastRequest.graph)
        /\ lastRequest.kind = "exit" =>
              /\ viewNodes = fullNodes
              /\ viewEdges = fullEdges

(***************************************************************************)
(* C10: findOrthogonalPath never fails its caller.  Every call returns,    *)
(* and when the start cell or the goal cell is blocked, or the search uses *)
(* up its iteration budget before reaching the goal, or runs out of open   *)
(* cells, what it returns is exactly the direct segment [start, end].      *)
(***************************************************************************)
CellOf(point) == <<FloorCell(point.x), FloorCell(point.y)>>

EndpointBlocked ==
    \/ CellOf(rStart) \in addNodeObstacles(rNodes)
    \/ CellOf(rEnd) \in addNodeObstacles(rNodes)

C10_FallbackIsDirectSegment ==
    rpc = "returned" =>
        /\ rResult.ended \in {"blocked", "goal", "budget", "empty"}
        /\ Len(rResult.path) >= 1
        /\ EndpointBlocked => rResult.ended = "blocked"
        /\ rResult.ended = "budget" => rResult.iterations = maxIterations
        /\ rResult.ended = "empty" => rResult.iterations < maxIterations
        /\ (EndpointBlocked \/ rResult.ended \in {"budget", "empty"})
              => rResult.path = <<rStart, rEnd>>

\* A search between two walkable cells used up the whole budget and the
\* call returned the direct segment.
C10_Witness ==
    /\ rpc = "returned"
    /\ ~EndpointBlocked
    /\ rResult.ended = "budget"
    /\ rResult.iterations = maxIterations
    /\ rResult.path = <<rStart, rEnd>>

(***************************************************************************)
(* C12: with no blocked cell between the start cell and the goal cell, the *)
(* path findOrthogonalPath returns has as many grid steps as the Manhattan *)
(* distance between the two cells.                                         *)
(***************************************************************************)
Between(a, b) == IF a <= b THEN a..b ELSE b..a

\* The cells of the rectangle spanned by the start cell and the goal cell.
CellsBetween ==
    Between(FloorCell(rStart.x), FloorCell(rEnd.x))
        \X Between(FloorCell(rStart.y), FloorCell(rEnd.y))

Unobstructed == CellsBetween \cap addNodeObstacles(rNodes) = {}

CellDistance == manhattanDistance(worldToGrid(rStart), worldToGrid(rEnd))

C12_CostIsManhattan ==
    (rpc = "returned" /\ Unobstructed) =>
        Len(rResult.path) - 1 = CellDistance

(***************************************************************************)
(* C13: with no blocked cell between the start cell and the goal cell, the *)
(* path of A* followed by optimizePath has no bend when the two cells      *)
(* share a row or a column and exactly one bend otherwise.  The formula    *)
(* looks only at searches that reached the goal.                           *)
(***************************************************************************)
\* The interior points of a path where the direction changes.
Bends(path) ==
    {i \in 2..(Len(path) - 1) :
        ~(\/ path[i - 1].x = path[i].x /\ path[i].x = path[i + 1].x
             /\ (path[i - 1].y < path[i].y) = (path[i].y < path[i + 1].y)
          \/ path[i - 1].y = path[i].y /\ path[i].y = path[i + 1].y
             /\ (path[i - 1].x < path[i].x) = (path[i].x < path[i + 1].x))}

SameRowOrColumn ==
    \/ FloorCell(rStart.x) = FloorCell(rEnd.x)
    \/ FloorCell(rStart.y) = FloorCell(rEnd.y)

C13_MinimalBends ==
    (rpc = "returned" /\ Unobstructed /\ rResult.ended = "goal") =>
        Cardinality(Bends(rOptimized)) = IF SameRowOrColumn THEN 0 ELSE 1

(***************************************************************************)
(* C11: an edge whose geometry is missing -- the solver gave it no section *)
(* or a section without start or end point -- is drawn as the direct       *)
(* straight segment between its raw endpoints, and building its path       *)
(* throws nothing.                                                         *)
(***************************************************************************)
MissingGeometry ==
    \/ ~eSection.present
    \/ eSection.startPoint = NoPoint
    \/ eSection.endPoint = NoPoint

C11_MissingGeometryIsDirectLine ==
    MissingGeometry =>
        /\ epc # "thrown"
        /\ epc = "rendered" =>
              ePath = [kind |-> "line", points |-> <<eSource, eTarget>>]

(***************************************************************************)
(* C17: when the bend points of an edge all have the same x, the waypoints *)
(* SmartEdge builds are exactly four, however many bend points there are:  *)
(* the start buffer point, the entry onto the routing line at that x, the  *)
(* exit from it, and the end buffer point.                                 *)
(***************************************************************************)
SectionComplete ==
    /\ eSection.present
    /\ eSection.startPoint # NoPoint
    /\ eSection.endPoint # NoPoint

AllBendsShareX ==
    /\ SectionComplete
    /\ Len(eSection.bendPoints) > 0
    /\ \A i \in 1..Len(eSection.bendPoints) :
           eSection.bendPoints[i].x = eSection.bendPoints[1].x

C17_OneRoutingLine ==
    (epc = "rendered" /\ AllBendsShareX) =>
        LET routingX == eSection.bendPoints[1].x
        IN /\ Len(eWaypoints) = 4
           /\ eWaypoints[1].y = eSource.y
           /\ Abs(eWaypoints[1].x - eSource.x) = MIN_SEGMENT_LENGTH
           /\ eWaypoints[2] = [x |-> routingX, y |-> eSource.y]
           /\ eWaypoints[3] = [x |-> routingX, y |-> eTarget.y]
           /\ eWaypoints[4].y = eTarget.y
           /\ Abs(eWaypoints[4].x - eTarget.x) = MIN_SEGMENT_LENGTH
           /\ ePath = [kind |-> "rounded",
                       points |-> <<eSource>> \o eWaypoints \o <<eTarget>>]

\* Three bend points on one x were rendered as one routing line.
C17_Witness ==
    /\ epc = "rendered"
    /\ AllBendsShareX
    /\ Len(eSection.bendPoints) = 3
    /\ Cardinality({eSection.bendPoints[i] : i \in 1..3}) = 3
    /\ Len(eWaypoints) = 4

(***************************************************************************)
(* C18: collinear-point removal -- optimizePath on the solver's polyline   *)
(* and the bend filter of SmartEdge -- leaves the first and the last point *)
(* unchanged, keeps every corner where the polyline changes direction, and *)
(* in its output no interior point has the x, or the y, of both its        *)
(* neighbours in the output.                                               *)
(***************************************************************************)
\* The polyline without the repetitions of a point right after itself.
RECURSIVE Collapse(_)
Collapse(in) ==
    IF Len(in) <= 1 THEN in
    ELSE IF in[1] = in[2] THEN Collapse(Tail(in))
    ELSE <<in[1]>> \o Collapse(Tail(in))

\* The places where the polyline changes direction.
GenuineCorners(in) ==
    LET c == Collapse(in)
    IN {c[i] : i \in {j \in 2..(Len(c) - 1) :
                         /\ ~(c[j - 1].x = c[j].x /\ c[j].x = c[j + 1].x)
                         /\ ~(c[j - 1].y = c[j].y /\ c[j].y = c[j + 1].y)}}

KeepsCorners(in, out) ==
    GenuineCorners(in) \subseteq {out[i] : i \in 1..Len(out)}

NoCollinearPointLeft(out) ==
    \A i \in 2..(Len(out) - 1) :
        /\ ~(out[i - 1].x = out[i].x /\ out[i].x = out[i + 1].x)
        /\ ~(out[i - 1].y = out[i].y /\ out[i].y = out[i + 1].y)

EndsKept(in, out) ==
    /\ Len(out) >= 2
    /\ out[1] = in[1]
    /\ out[Len(out)] = in[Len(in)]

SolverPolyline ==
    <<eSection.startPoint>> \o eSection.bendPoints \o <<eSection.endPoint>>

BendsFiltered ==
    /\ epc = "rendered"
    /\ SectionComplete
    /\ \E i \in 1..Len(eSection.bendPoints) :
           eSection.bendPoints[i].x # eSection.bendPoints[1].x
    /\ \E i \in 1..Len(eSection.bendPoints) :
           eSection.bendPoints[i].y # eSection.bendPoints[1].y

C18_CollinearPointsRemoved ==
    /\ (epc \in {"built", "rendered"} /\ SectionComplete
        /\ Len(eSection.bendPoints) > 0) =>
           /\ EndsKept(SolverPolyline, eData.fullPath)
           /\ KeepsCorners(SolverPolyline, eData.fullPath)
           /\ NoCollinearPointLeft(eData.fullPath)
    /\ BendsFiltered =>
           LET filtered == SubSeq(eWaypoints, 3, Len(eWaypoints) - 2)
           IN /\ EndsKept(eSection.bendPoints, filtered)
              /\ KeepsCorners(eSection.bendPoints, filtered)
              /\ NoCollinearPointLeft(filtered)

(***************************************************************************)
(* C14: two edges are in the same separation group if and only if they     *)
(* join the same two nodes, whatever their direction and whatever          *)
(* characters the ids hold.                                                *)
(***************************************************************************)
SameGroup(i, j) ==
    \E k \in DOMAIN sGroups :
        \E m, n \in 1..Len(sGroups[k]) : sGroups[k][m] = i /\ sGroups[k][n] = j

SamePair(i, j) ==
    {sEdges[i].source, sEdges[i].target} = {sEdges[j].source, sEdges[j].target}

C14_GroupsByUnorderedPair ==
    spc = "separated" =>
        \A i, j \in 1..Len(sEdges) : SameGroup(i, j) <=> SamePair(i, j)

(***************************************************************************)
(* C15: in a group of n >= 2 edges the path of the member with index i is  *)
(* the path of the first pass moved by (i - (n-1)/2) * 12 along one unit   *)
(* perpendicular that all members of the group share.                      *)
(***************************************************************************)
UnitVectors == { [x |-> 1, y |-> 0], [x |-> -1, y |-> 0],
                 [x |-> 0, y |-> 1], [x |-> 0, y |-> -1] }

MovedAlong(e, u, distance) ==
    sProcessed[e].fullPath =
        [p \in 1..Len(sPaths[e]) |->
            [x |-> sPaths[e][p].x + u.x * distance,
             y |-> sPaths[e][p].y + u.y * distance]]

C15_OffsetsAlongCommonPerpendicular ==
    spc = "separated" =>
        \A k \in DOMAIN sGroups :
            LET n == Len(sGroups[k])
            IN n >= 2 =>
                 \E u \in UnitVectors :
                     \A m \in 1..n :
                         Len(sPaths[sGroups[k][m]]) >= 2 =>
                             MovedAlong(sGroups[k][m], u,
                                 ((2 * (m - 1) - (n - 1)) * EDGE_SEPARATION) \div 2)

(***************************************************************************)
(* C16: separation keeps id, source and target of every edge and the first *)
(* and last point of its path; only the points in between move.            *)
(***************************************************************************)
C16_EndpointsPreserved ==
    spc = "separated" =>
        \A e \in 1..Len(sEdges) :
            /\ sProcessed[e].id = sEdges[e].id
            /\ sProcessed[e].source = sEdges[e].source
            /\ sProcessed[e].target = sEdges[e].target
            /\ Len(sProcessed[e].fullPath) = Len(sPaths[e])
            /\ Len(sPaths[e]) >= 1 =>
                  /\ sProcessed[e].fullPath[1] = sPaths[e][1]
                  /\ sProcessed[e].fullPath[Len(sPaths[e])]
                        = sPaths[e][Len(sPaths[e])]

(***************************************************************************)
(* C19: port-side resolution writes its results into the fresh map only:   *)
(* the side properties of the port objects the layout solver returned are  *)
(* after the resolution what the solver returned.                          *)
(***************************************************************************)
C19_SolverPortObjectsUntouched ==
    ppc = "resolved" => elkPortSide = solverPortSides(nodePos, pHorizontal)

(***************************************************************************)
(* C20: an edge whose other end names no laid-out node is skipped by the   *)
(* port-side resolution: every port resolves to the side it has when the   *)
(* dangling edges are taken out of the edge list.                          *)
(***************************************************************************)
Dangling(e) == e.source \notin DOMAIN nodePos \/ e.target \notin DOMAIN nodePos

C20_DanglingEdgesSkipped ==
    ppc = "resolved" =>
        portSidesMap =
            buildPortSidesMap(SelectSeq(pEdges, LAMBDA e : ~Dangling(e)),
                              nodePos, pHorizontal)

(***************************************************************************)
(* C21: a node with no qualifying edge (no touching edge naming an         *)
(* existing port key of the other endpoint) has no priority, and every     *)
(* sibling list handed to the solver -- the nodes of each area and the     *)
(* standalone nodes -- is in ascending order of priority, the nodes        *)
(* without a priority after all nodes with one.                            *)
(***************************************************************************)
QualifyingFor(id) ==
    {i \in 1..Len(qEdges) :
        \/ qEdges[i].source = id /\ \E k \in 1..Len(PortKeys[qEdges[i].target]) :
                                        PortKeys[qEdges[i].target][k] = qEdges[i].targetPortKey
        \/ qEdges[i].target = id /\ \E k \in 1..Len(PortKeys[qEdges[i].source]) :
                                        PortKeys[qEdges[i].source][k] = qEdges[i].sourcePortKey}

AscendingPriority(ids) ==
    \A i, j \in 1..Len(ids) :
        i < j =>
            /\ ids[i] \notin DOMAIN qPriorities => ids[j] \notin DOMAIN qPriorities
            /\ (ids[i] \in DOMAIN qPriorities /\ ids[j] \in DOMAIN qPriorities)
                  => qPriorities[ids[i]].total * qPriorities[ids[j]].count
                        <= qPriorities[ids[j]].total * qPriorities[ids[i]].count

C21_NoPriorityWithoutEdge ==
    qpc = "built" =>
        \A i \in 1..Len(qNodes) :
            QualifyingFor(qNodes[i].id) = {} => qNodes[i].id \notin DOMAIN qPriorities

C21_AreaNodesAscending ==
    qpc = "built" => \A a \in DOMAIN qAreaNodes : AscendingPriority(qAreaNodes[a])

C21_SiblingsAscending ==
    /\ C21_NoPriorityWithoutEdge
    /\ C21_AreaNodesAscending
    /\ qpc = "built" => AscendingPriority(qStandalone)

(***************************************************************************)
(* C22: when the view is the outcome of a focus request on device N of the *)
(* loaded graph, every node of the computed neighbourhood, N included, is  *)
(* among the displayed nodes -- also when N's container is nested in       *)
(* another container.                                                      *)
(***************************************************************************)
DeviceIdsOf(graph) == {graph.nodes[i].id : i \in 1..Len(graph.nodes)}

ViewIds == {viewNodes[i].id : i \in 1..Len(viewNodes)}

FocusNeighborhood ==
    calculateNeighborhood(focusMode.focusedNodeId, focusMode.depthOutgoing,
                          focusMode.depthIncoming, fullGraphData.edges,
                          focusMode.followOutgoing, focusMode.followIncoming)

FocusViewShown ==
    /\ focusMode.enabled
    /\ fullGraphData # NoGraph
    /\ focusMode.focusedNodeId \in DeviceIdsOf(fullGraphData)
    /\ viewNodes = LayoutNodes(FocusGraph(focusMode.focusedNodeId, focusMode))

C22_NeighborhoodDisplayed ==
    FocusViewShown => FocusNeighborhood \subseteq ViewIds

(***************************************************************************)
(* C23: whenever no layout call is in flight: with focus mode off the      *)
(* displayed nodes and edges are the full layout of the loaded graph; with *)
(* focus mode on the focused node is a device of the loaded graph and the  *)
(* displayed devices are exactly its neighbourhood under the stored depth  *)
(* and direction settings.                                                 *)
(***************************************************************************)
ViewDeviceIds ==
    {viewNodes[i].id : i \in {j \in 1..Len(viewNodes) : viewNodes[j].type = "deviceNode"}}

C23_ViewMatchesFocusState ==
    inFlight = <<>> =>
        /\ ~focusMode.enabled =>
              /\ viewNodes = LayoutNodes(graphData)
              /\ viewEdges = LayoutEdges(graphData)
        /\ focusMode.enabled =>
              /\ focusMode.focusedNodeId \in DeviceIdsOf(graphData)
              /\ ViewDeviceIds =
                    calculateNeighborhood(focusMode.focusedNodeId,
                        focusMode.depthOutgoing, focusMode.depthIncoming,
                        graphData.edges,
                        focusMode.followOutgoing, focusMode.followIncoming)

(***************************************************************************)
(* C24: focus-setting updates are never lost: an update issued while the   *)
(* layout of an earlier update of the same focus is still in flight keeps  *)
(* that update's value for every setting it does not change itself, so     *)
(* that the state stored once both have completed reflects both.           *)
(***************************************************************************)
Settings == {"depthOutgoing", "depthIncoming", "followOutgoing", "followIncoming"}

SettingOf(fm, name) ==
    IF name = "depthOutgoing" THEN <<fm.depthOutgoing>>
    ELSE IF name = "depthIncoming" THEN <<fm.depthIncoming>>
    ELSE IF name = "followOutgoing" THEN <<fm.followOutgoing>>
    ELSE <<fm.followIncoming>>

Changed(fm1, fm2) == {name \in Settings : SettingOf(fm1, name) # SettingOf(fm2, name)}

\* The youngest call in flight is an update of the focus now stored.
UpdatePending ==
    /\ inFlight # <<>>
    /\ focusMode.enabled
    /\ inFlight[Len(inFlight)].kind = "focus"
    /\ inFlight[Len(inFlight)].focusMode.enabled
    /\ inFlight[Len(inFlight)].focusMode.focusedNodeId = focusMode.focusedNodeId
    /\ Cardinality(Changed(inFlight[Len(inFlight)].focusMode, focusMode)) = 1

C24_UpdatesNotLost ==
    [][(UpdateFocusMode /\ UpdatePending) =>
          Cardinality(Changed(inFlight'[Len(inFlight')].focusMode,
                              inFlight[Len(inFlight)].focusMode)) <= 1]_vars

(***************************************************************************)
(* C29: a click on the focused device node while focus mode is on leaves   *)
(* focus mode: focus is off with no focused node, both depths are 2 and    *)
(* both directions on, the displayed nodes and edges are the stored full   *)
(* nodes and edges, and no layout call is issued.                          *)
(***************************************************************************)
C29_ClickOnFocusedNodeExits ==
    [][ClickFocusedNode =>
          /\ ~focusMode'.enabled
          /\ focusMode'.focusedNodeId = None
          /\ focusMode'.depthOutgoing = 2 /\ focusMode'.depthIncoming = 2
          /\ focusMode'.followOutgoing /\ focusMode'.followIncoming
          /\ viewNodes' = fullNodes /\ viewEdges' = fullEdges
          /\ inFlight' = inFlight]_vars

\* Focus is off again after a click on the focused node, the depth having
\* been changed before; the full graph is displayed.
C29_Witness ==
    /\ lastRequest = ExitRequest
    /\ focusMode = FocusOff
    /\ fullGraphData = G1
    /\ viewNodes = fullNodes /\ Len(viewNodes) = 4
    /\ inFlight # <<>>
    /\ inFlight[1].kind = "focus" /\ inFlight[1].focusMode.depthOutgoing = 1

(***************************************************************************)
(* C25: each directional BFS terminates on every edge list (cycles,        *)
(* self-loops and duplicate edges included); a node is put on the queue    *)
(* when it is new or reached at a strictly smaller distance than the one   *)
(* recorded, never otherwise; an entry whose distance is the bound is not  *)
(* expanded; and the distance recorded for a node is its minimum hop count *)
(* from the focus node.                                                    *)
(***************************************************************************)
MinHops(n) ==
    CHOOSE k \in 0..Len(bEdges) :
        /\ n \in ReachWithin(bStart, k, bEdges, bOutgoing)
        /\ \A j \in 0..(k - 1) : n \notin ReachWithin(bStart, j, bEdges, bOutgoing)

BfsDistancesMinimal ==
    \A n \in DOMAIN bDepths :
        /\ n \in ReachWithin(bStart, Len(bEdges), bEdges, bOutgoing)
        /\ bDepths[n] = MinHops(n)

BfsBoundNotExpanded == \A entry \in bExpanded : entry.depth < bBound

BfsReachedAll ==
    bpc = "done" => DOMAIN bDepths = ReachWithin(bStart, bBound, bEdges, bOutgoing)

\* The entries a step appends to the queue.
Enqueued ==
    IF bQueue = <<>> THEN <<>> ELSE SubSeq(bQueue', Len(bQueue), Len(bQueue'))

\* The distances recorded for a node before entry i was appended: by an
\* earlier entry of the same step, or before the step.
RecordedBefore(i) ==
    {Enqueued[j].depth : j \in {k \in 1..(i - 1) : Enqueued[k].nodeId = Enqueued[i].nodeId}}
    \cup (IF Enqueued[i].nodeId \in DOMAIN bDepths
          THEN {bDepths[Enqueued[i].nodeId]} ELSE {})

BfsEnqueueOnlyCloser ==
    [][\A i \in 1..Len(Enqueued) :
          \A recorded \in RecordedBefore(i) : recorded > Enqueued[i].depth]_vars

C25_BoundedShortestHopBFS ==
    /\ [](BfsDistancesMinimal /\ BfsBoundNotExpanded /\ BfsReachedAll)
    /\ BfsEnqueueOnlyCloser
    /\ <>(bpc = "done")

\* A run over a cycle with a duplicated edge has ended: A -> B twice and the
\* bound 2 let B be expanded once.
C25_Witness ==
    /\ bpc = "done"
    /\ bBound = 2 /\ bOutgoing /\ bStart = "A"
    /\ Len(bEdges) = 2
    /\ \A i \in 1..2 : bEdges[i].source = "A" /\ bEdges[i].target = "B"
    /\ bDepths = [n \in {"A", "B"} |-> IF n = "A" THEN 0 ELSE 1]
    /\ bExpanded = {[nodeId |-> "A", depth |-> 0], [nodeId |-> "B", depth |-> 1]}

(***************************************************************************)
(* C26: whenever the search reaches the goal, every segment of the path    *)
(* returned -- the first and last cell centre replaced by the exact start  *)
(* and end point -- is horizontal or vertical.                             *)
(***************************************************************************)
AxisAligned(path) ==
    \A i \in 1..(Len(path) - 1) :
        path[i].x = path[i + 1].x \/ path[i].y = path[i + 1].y

C26_SegmentsAxisAligned ==
    (rpc = "returned" /\ rResult.ended = "goal") => AxisAligned(rResult.path)

(***************************************************************************)
(* C27: for an edge without bend points whose start and end point lie on   *)
(* the borders of its source and target node, the padded boxes of those    *)
(* two nodes do not block the start and the goal cell: the search is run,  *)
(* the blocked-endpoint fallback is not taken.                             *)
(***************************************************************************)
OnBorder(point, node) ==
    \/ /\ point.x \in {node.x, node.x + node.width}
       /\ node.y <= point.y /\ point.y <= node.y + node.height
    \/ /\ point.y \in {node.y, node.y + node.height}
       /\ node.x <= point.x /\ point.x <= node.x + node.width

AttachedToOwnNodes ==
    /\ Len(rNodes) = 2
    /\ OnBorder(rStart, rNodes[1])
    /\ OnBorder(rEnd, rNodes[2])

C27_SearchRunsForAttachedEdge ==
    (rpc = "returned" /\ AttachedToOwnNodes) => rResult.ended # "blocked"

(***************************************************************************)
(* C28: for bend points on one routing column x = c with                   *)
(* sourceX < c < targetX the waypoints are (sourceX + 30, sourceY),        *)
(* (c, sourceY), (c, targetY), (targetX - 30, targetY): each buffer point  *)
(* lies between its attachment point and the routing column.               *)
(***************************************************************************)
ColumnBetween ==
    /\ AllBendsShareX
    /\ eSource.x < eSection.bendPoints[1].x
    /\ eSection.bendPoints[1].x < eTarget.x

C28_BuffersTowardsColumn ==
    (epc = "rendered" /\ ColumnBetween) =>
        LET c == eSection.bendPoints[1].x
        IN eWaypoints = <<[x |-> eSource.x + 30, y |-> eSource.y],
                          [x |-> c, y |-> eSource.y],
                          [x |-> c, y |-> eTarget.y],
                          [x |-> eTarget.x - 30, y |-> eTarget.y]>>

(***************************************************************************)
(* C30: after any sequence of save, load, upload and delete, every entry   *)
(* of the saved-graphs store can be loaded by its id -- the displayed      *)
(* graph becomes the entry's data -- and can be deleted; no entry is       *)
(* stored under the reserved id of the sample graph.                       *)
(***************************************************************************)
CanBeLoaded(id) ==
    handleLoadGraph(mSavedGraphs, id,
        [graphData |-> mGraphData, currentGraphId |-> mCurrentGraphId],
        mStoredCurrent).graphData = mSavedGraphs[id].data

CanBeDeleted(id) == id \notin DOMAIN handleDeleteGraph(mSavedGraphs, id)

C30_NoEntryUnderSampleId == SAMPLE_GRAPH_ID \notin DOMAIN mSavedGraphs

C30_SavedEntriesUsable ==
    /\ C30_NoEntryUnderSampleId
    /\ \A id \in DOMAIN mSavedGraphs : CanBeLoaded(id) /\ CanBeDeleted(id)


=============================================================================
